---- MODULE Spec2Model ----
(***************************************************************************)
(* Model of the R&D report builder (src/RGGP7.py): the form state, the     *)
(* collected ReportModel, project persistence (_to_dict / _load_from_dict),*)
(* the two exporters (_export_docx, _export_pdf_basic) and _generate.      *)
(*                                                                         *)
(* Text is a sequence of one-character strings, so that strip, splitlines  *)
(* and join are computed as the code computes them.  Literal text of the   *)
(* program (heading titles, labels) is kept as one piece of the sequence.  *)
(***************************************************************************)
EXTENDS Integers, Sequences, FiniteSets, TLC

VARIABLES
    form,        \* the widgets' contents, keyed by the model field they feed
    include,     \* self.include: key -> BooleanVar
    export_fmt,  \* self.export_fmt: "docx" | "pdf" | "both"
    branding,    \* header_path_var, footer_path_var, logo_path_var
    libs,        \* module globals: Document, SimpleDocTemplate, docx2pdf_convert
    fs,          \* output files on disk: path -> content
    current_file_path,  \* self.current_file_path: None or the project file
    dialogs,     \* the open "Result Item" windows, in the order they were opened
    last         \* what the last handler did (its events, outcome, inputs)

vars == <<form, include, export_fmt, branding, libs, fs, current_file_path, dialogs, last>>

-----------------------------------------------------------------------------
(* Text helpers                                                            *)

NL == "\n"
SP == " "
TAB == "\t"
Whitespace == {SP, NL, TAB}
EmptyStr == <<>>

\* str.strip(): leading and trailing whitespace removed
RECURSIVE LStrip(_)
LStrip(s) ==
    IF s = <<>> THEN <<>>
    ELSE IF Head(s) \in Whitespace THEN LStrip(Tail(s)) ELSE s

RECURSIVE RStrip(_)
RStrip(s) ==
    IF s = <<>> THEN <<>>
    ELSE IF s[Len(s)] \in Whitespace THEN RStrip(SubSeq(s, 1, Len(s) - 1)) ELSE s

Strip(s) == RStrip(LStrip(s))

\* str.splitlines(): split at every newline; a final newline opens no line
RECURSIVE SplitFrom(_, _, _)
SplitFrom(s, i, cur) ==
    IF i > Len(s) THEN (IF cur = <<>> THEN <<>> ELSE <<cur>>)
    ELSE IF s[i] = NL THEN <<cur>> \o SplitFrom(s, i + 1, <<>>)
    ELSE SplitFrom(s, i + 1, Append(cur, s[i]))

splitlines(s) == SplitFrom(s, 1, <<>>)

\* a comprehension without its filter: every entry stripped, none dropped
StripNonEmpty_KeepsBlank(xs) == [i \in 1..Len(xs) |-> Strip(xs[i])]

\* [f(x) for x in xs if keep(x)] for the two comprehensions of the code
RECURSIVE StripNonEmpty(_)
StripNonEmpty(xs) ==
    IF xs = <<>> THEN <<>>
    ELSE IF Strip(Head(xs)) # <<>>
         THEN <<Strip(Head(xs))>> \o StripNonEmpty(Tail(xs))
         ELSE StripNonEmpty(Tail(xs))

\* safe_split_lines(text): the stripped non-empty lines, in order
safe_split_lines(text) == StripNonEmpty(splitlines(text))

\* sep.join(xs)
RECURSIVE Join(_, _)
Join(xs, sep) ==
    IF xs = <<>> THEN <<>>
    ELSE IF Len(xs) = 1 THEN Head(xs)
    ELSE Head(xs) \o sep \o Join(Tail(xs), sep)

\* tk.Text.get("1.0", "end"): the content and the widget's final newline
TextGet(w) == w \o <<NL>>

\* decimal numeral of a small index, as the f-strings print it
Numeral(n) == <<"0", "1", "2", "3", "4", "5", "6", "7", "8", "9">>[n + 1]

RECURSIVE FlattenSeq(_)
FlattenSeq(ss) == IF ss = <<>> THEN <<>> ELSE Head(ss) \o FlattenSeq(Tail(ss))

SeqMax(ns) == IF ns = <<>> THEN 0 ELSE CHOOSE m \in {ns[i] : i \in 1..Len(ns)} : \A j \in 1..Len(ns) : ns[j] <= m

-----------------------------------------------------------------------------
(* Constants of the program                                                *)

DOCX_TABLE_STYLES ==
    <<"Table Grid", "Light List", "Light List Accent 1", "Light Grid",
      "Light Grid Accent 1", "Medium Grid 1", "Medium Grid 1 Accent 1",
      "Medium Shading 1", "Medium Shading 1 Accent 1">>

TRIAL_LAYOUTS == <<"Even columns", "Reasons wide", "Compact">>

\* self._include_state_keys
IncludeKeys ==
    <<"sec_general", "t_plain", "t_objectives", "t_methods", "t_rm", "t_ins",
      "t_proc", "t_trial", "t_results", "t_conc", "t_misc", "t_refs",
      "sec_reg", "sec_scale", "sec_quality", "sec_commercial">>

IncludeKeySet == {IncludeKeys[i] : i \in 1..Len(IncludeKeys)}

\* _tab_export: every key is created True and set True again
AllEnabled == [k \in IncludeKeySet |-> TRUE]
AllBut(K) == [k \in IncludeKeySet |-> k # K]

\* Python's None, as a value a field can hold
None == "None"
PathGiven(p) == p \notin {None, ""}

SmartKeys == <<"S", "M", "A", "R", "T">>
SmartLabel ==
    [S |-> "Specific", M |-> "Measurable", A |-> "Achievable",
     R |-> "Relevant", T |-> "Time-bound"]
EmptySmart == [k \in {"S", "M", "A", "R", "T"} |-> <<>>]

-----------------------------------------------------------------------------
(* Data model: the dataclasses                                             *)

\* fields read from an Entry / StringVar: var.get().strip()
EntryFields ==
    {"project_title", "start_date", "report_date", "assigned_by", "bin_no",
     "researcher_name", "total_hours"}

\* fields read from a Text widget: txt.get("1.0", "end").strip()
TextFields ==
    {"plain_summary", "miscellaneous", "regulations", "label_req",
     "certification_req", "formulation_risk_text", "hazards_text",
     "equipment_text", "capex_text", "safety_assess_text",
     "raw_material_sourcing", "lims_setup", "stability_testing",
     "packaging_compatibility", "c_obj_problem", "c_specs",
     "c_expected_volume", "c_packaging_req", "c_raw_material_prefs",
     "c_sample_needed", "c_opportunity_timeline", "target_application",
     "customer_feedback", "tds_development"}

\* list fields typed one entry per line into a Text widget
LineListFields ==
    {"methods_raw_materials", "methods_instruments", "methods_procedure",
     "conclusion", "references"}

\* list fields typed into numbered rows of Entry widgets (obj_vars, mo_vars)
RowListFields == {"objectives", "manuf_order_steps"}

TrialRow(number, issue, reasons) ==
    [number |-> number, issue |-> issue, reasons |-> reasons]

EmailEntry(date, customer, correspondence) ==
    [date |-> date, customer |-> customer, correspondence |-> correspondence]

\* ResultItem with the dataclass defaults for the fields not given
ResultItemDefaults ==
    [content |-> <<>>, image_path |-> None, images |-> <<>>, caption |-> <<>>,
     table_data |-> <<>>, table_style |-> "Table Grid"]

ResultItem(fields) == fields @@ ResultItemDefaults

\* ReportModel(): every field at its dataclass default
ReportModelDefaults ==
    [f \in EntryFields \cup TextFields |-> <<>>] @@
    [f \in LineListFields \cup RowListFields |-> <<>>] @@
    [trial_history |-> <<>>, trial_layout |-> TRIAL_LAYOUTS[1],
     trial_docx_style |-> DOCX_TABLE_STYLES[1], results |-> <<>>,
     smart_goals |-> EmptySmart, email_correspondence |-> <<>>]

ReportModelFields == DOMAIN ReportModelDefaults

-----------------------------------------------------------------------------
(* The form: what the widgets hold.  A widget is named by the ReportModel  *)
(* field it feeds; a row list holds the row variables' raw contents.       *)

\* the form of a freshly constructed ReportApp: empty widgets, one empty
\* objective row and one empty manufacturing-order row, no results.
\* objectives and manuf_order_steps hold the values of obj_vars and mo_vars;
\* _obj_container and _mo_container hold the labels of the row frames
FreshForm ==
    [f \in EntryFields \cup TextFields \cup LineListFields |-> <<>>] @@
    [objectives |-> << <<>> >>, manuf_order_steps |-> << <<>> >>,
     _obj_container |-> <<1>>, _mo_container |-> <<1>>,
     trial_history |-> <<>>, trial_layout |-> TRIAL_LAYOUTS[1],
     trial_docx_style |-> DOCX_TABLE_STYLES[1], results |-> <<>>,
     smart_goals |-> EmptySmart, email_correspondence |-> <<>>]

\* ttk.Treeview.item(child)["values"]: tkinter converts each value that
\* reads as an integer to int, and _collect applies str() to it
Digits == {"0", "1", "2", "3", "4", "5", "6", "7", "8", "9"}

\* int(value): the text reads as an integer when, stripped, it is an
\* optional sign and digits
Unsigned(v) ==
    IF Strip(v) # <<>> /\ Head(Strip(v)) \in {"+", "-"} THEN Tail(Strip(v)) ELSE Strip(v)

IsIntLiteral(v) ==
    Unsigned(v) # <<>> /\ \A i \in 1..Len(Unsigned(v)) : Unsigned(v)[i] \in Digits

RECURSIVE DropLeadingZeros(_)
DropLeadingZeros(d) ==
    IF Len(d) > 1 /\ Head(d) = "0" THEN DropLeadingZeros(Tail(d)) ELSE d

\* str(int(value)) for a value that reads as an integer, the value itself
\* otherwise
TreeValue(v) ==
    IF IsIntLiteral(v)
    THEN (IF Head(Strip(v)) = "-" /\ DropLeadingZeros(Unsigned(v)) # <<"0">>
          THEN <<"-">> ELSE <<>>) \o DropLeadingZeros(Unsigned(v))
    ELSE v

\* _collect: the ReportModel read from the widgets
CollectTrial(rows) ==
    [i \in 1..Len(rows) |->
        TrialRow(TreeValue(rows[i].number), TreeValue(rows[i].issue),
                 TreeValue(rows[i].reasons))]

CollectEmail(rows) ==
    [i \in 1..Len(rows) |->
        EmailEntry(rows[i].date, rows[i].customer, rows[i].correspondence)]

_collect(fm) ==
    [f \in EntryFields |-> Strip(fm[f])] @@
    [f \in TextFields |-> Strip(TextGet(fm[f]))] @@
    [f \in LineListFields |-> safe_split_lines(TextGet(fm[f]))] @@
    [f \in RowListFields |-> StripNonEmpty(fm[f])] @@
    [trial_history |-> CollectTrial(fm.trial_history),
     trial_layout |-> fm.trial_layout,
     trial_docx_style |-> fm.trial_docx_style,
     results |-> fm.results,
     smart_goals |-> [k \in DOMAIN fm.smart_goals |-> Strip(fm.smart_goals[k])],
     email_correspondence |-> CollectEmail(fm.email_correspondence)]

-----------------------------------------------------------------------------
(* Image files on disk, as the exporters see them                          *)

ImagePaths == {"ok.png", "ok2.png", "bad.png", "gone.png"}

\* os.path.isfile(pth)
isfile(pth) ==
    pth \in {"ok.png", "ok2.png", "bad.png", "Header.png", "Footer.png",
             "cache/ok.png", "cache/ok2.png", "cache/bad.png"}

\* whether the imaging library can decode the file (add_picture, RLImage)
Decodable(pth) ==
    pth \in {"ok.png", "ok2.png", "Header.png", "Footer.png", "cache/ok.png", "cache/ok2.png"}

-----------------------------------------------------------------------------
(* Blocks: what an exporter appends to the document body / the story       *)

Lit(s) == <<s>>

Blk(kind, level, text) ==
    [kind |-> kind, level |-> level, text |-> text, ordered |-> FALSE,
     items |-> <<>>, rows |-> <<>>, style |-> "", colWidths |-> <<>>]

Heading(level, text) == Blk("heading", level, text)
Para(level, text) == Blk("para", level, text)
ListItemBlk(level, text, numbered) == [Blk("li", level, text) EXCEPT !.ordered = numbered]
ListBlk(level, its, numbered) ==
    [Blk("list", level, <<>>) EXCEPT !.items = its, !.ordered = numbered]
TableBlk(rws, sty) == [Blk("table", 0, <<>>) EXCEPT !.rows = rws, !.style = sty]
ImageBlk(pth) == Blk("image", 0, Lit(pth))
CaptionBlk(text) == Blk("caption", 3, text)

\* the six rows of the General Information table
GeneralRows(r) ==
    << <<Lit("Start Date"), r.start_date>>,
       <<Lit("Report Date"), r.report_date>>,
       <<Lit("Assigned By"), r.assigned_by>>,
       <<Lit("Bin No"), r.bin_no>>,
       <<Lit("Researcher Name"), r.researcher_name>>,
       <<Lit("Total Hours"), r.total_hours>> >>

TrialRows(r) ==
    << <<Lit("Trial#"), Lit("Issue"), Lit("Possible Reasons")>> >> \o
    [i \in 1..Len(r.trial_history) |->
        <<r.trial_history[i].number, r.trial_history[i].issue,
          r.trial_history[i].reasons>>]

EmailRows(r) ==
    << <<Lit("Date"), Lit("Customer Name"), Lit("Correspondence")>> >> \o
    [i \in 1..Len(r.email_correspondence) |->
        <<r.email_correspondence[i].date, r.email_correspondence[i].customer,
          r.email_correspondence[i].correspondence>>]

\* try: t.style = name / except: t.style = "Table Grid"
DocxStyle(name) ==
    IF name \in {DOCX_TABLE_STYLES[i] : i \in 1..Len(DOCX_TABLE_STYLES)}
    THEN name ELSE "Table Grid"

\* a strip that strips nothing
KeepText(s) == s

\* text.strip("\n")
RECURSIVE LStripNL(_)
LStripNL(s) == IF s # <<>> /\ Head(s) = NL THEN LStripNL(Tail(s)) ELSE s

RECURSIVE RStripNL(_)
RStripNL(s) ==
    IF s # <<>> /\ s[Len(s)] = NL THEN RStripNL(SubSeq(s, 1, Len(s) - 1)) ELSE s

StripNL(s) == RStripNL(LStripNL(s))

\* ln.split(sep): the pieces between occurrences of sep, empty ones kept
RECURSIVE SplitOnFrom(_, _, _, _)
SplitOnFrom(s, sep, i, cur) ==
    IF i > Len(s) THEN <<cur>>
    ELSE IF s[i] = sep THEN <<cur>> \o SplitOnFrom(s, sep, i + 1, <<>>)
    ELSE SplitOnFrom(s, sep, i + 1, Append(cur, s[i]))

SplitOn(s, sep) == SplitOnFrom(s, sep, 1, <<>>)

\* end of the whitespace run that starts at i
RECURSIVE WsRunEnd(_, _)
WsRunEnd(s, i) ==
    IF i + 1 <= Len(s) /\ s[i + 1] \in Whitespace THEN WsRunEnd(s, i + 1) ELSE i

\* re.split(r"\s{2,}", s): cut at every run of two or more whitespace
RECURSIVE WsSplitFrom(_, _, _)
WsSplitFrom(s, i, cur) ==
    IF i > Len(s) THEN <<cur>>
    ELSE IF s[i] \in Whitespace /\ WsRunEnd(s, i) > i
         THEN <<cur>> \o WsSplitFrom(s, WsRunEnd(s, i) + 1, <<>>)
         ELSE WsSplitFrom(s, i + 1, Append(cur, s[i]))

\* a split that cuts at every whitespace character, single ones included
WsSplit_AnyRun(s) ==
    SelectSeq(SplitOnFrom([i \in 1..Len(s) |-> IF s[i] \in Whitespace THEN SP ELSE s[i]],
                          SP, 1, <<>>),
              LAMBDA part : part # <<>>)

WsSplit(s) == SelectSeq(WsSplitFrom(s, 1, <<>>), LAMBDA part : part # <<>>)

Delimiters == {TAB, ",", ";"}

-----------------------------------------------------------------------------
(* csv.Sniffer().sniff(txt, delimiters="\t,;") of the standard library, for *)
(* a sample of at most ten lines (one chunk of _guess_delimiter)           *)

DQ == "\""
SQ == "'"
QuoteChars == {DQ, SQ}

\* the characters of the model's alphabet that \w does not match
NonWordChars == {NL, SP, TAB, ",", ";", ":", ".", "/", "-", "+", DQ, SQ}
IsWord(c) == c \notin NonWordChars

\* line.count(c)
Count(ln, c) == Cardinality({i \in 1..Len(ln) : ln[i] = c})

\* line.count(c + " ")
CountBeforeSpace(ln, c) ==
    Cardinality({i \in 1..(Len(ln) - 1) : ln[i] = c /\ ln[i + 1] = SP})

\* list(filter(None, data.split('\n')))
DataLines(sample) == SelectSeq(SplitOn(sample, NL), LAMBDA ln : ln # <<>>)

\* charFrequency[c]: how many lines hold c a given number of times
MetaFrequency(data, c, freq) ==
    Cardinality({i \in 1..Len(data) : Count(data[i], c) = freq})

Frequencies(data, c) == {Count(data[i], c) : i \in 1..Len(data)}

\* the line on which a frequency is met first (the dict's insertion order)
FirstLineWith(data, c, freq) ==
    CHOOSE i \in 1..Len(data) :
        /\ Count(data[i], c) = freq
        /\ \A k \in 1..(i - 1) : Count(data[k], c) # freq

\* max(items, key=lambda x: x[1]): the frequency met on most lines, the
\* first inserted one among equals
ModeFrequency(data, c) ==
    CHOOSE f \in Frequencies(data, c) :
        \A g \in Frequencies(data, c) :
            \/ MetaFrequency(data, c, f) > MetaFrequency(data, c, g)
            \/ /\ MetaFrequency(data, c, f) = MetaFrequency(data, c, g)
               /\ FirstLineWith(data, c, f) <= FirstLineWith(data, c, g)

\* modes[c][1]: the lines at the mode, less the lines at any other frequency
ModeLines(data, c) ==
    IF Cardinality(Frequencies(data, c)) > 1
    THEN 2 * MetaFrequency(data, c, ModeFrequency(data, c)) - Len(data)
    ELSE Len(data)

\* the characters accepted at one consistency level, in percent
DelimsAt(data, delimiters, percent) ==
    {c \in delimiters :
        /\ Frequencies(data, c) # {0}
        /\ ModeFrequency(data, c) > 0
        /\ ModeLines(data, c) > 0
        /\ 100 * ModeLines(data, c) >= percent * Len(data)}

\* while len(delims) == 0 and consistency >= threshold: from 1.0 down to 0.9
GuessedDelimsAmong(data, delimiters, levels) ==
    IF data = <<>> \/ levels = {} THEN {}
    ELSE DelimsAt(data, delimiters, CHOOSE pc \in levels : \A q \in levels : q <= pc)

GuessedDelims(data, delimiters) ==
    GuessedDelimsAmong(data, delimiters,
                       {pc \in 90..100 : DelimsAt(data, delimiters, pc) # {}})

\* Sniffer.preferred
preferred == <<",", TAB, ";", SP, ":">>

\* the result of a guess: no delimiter is the empty string
Guess(delim, skipinitialspace) ==
    [delimiter |-> delim, skipinitialspace |-> skipinitialspace]

\* _guess_delimiter(data, delimiters)
\* the one delimiter left, or the first of the preferred list among several
PickDelim(delims) ==
    IF Cardinality(delims) = 1 THEN CHOOSE c \in delims : TRUE
    ELSE preferred[CHOOSE i \in 1..Len(preferred) :
                       /\ preferred[i] \in delims
                       /\ \A k \in 1..(i - 1) : preferred[k] \notin delims]

\* skipinitialspace: every delimiter of the first line is followed by a space
GuessWith(data, delim) ==
    Guess(delim, Count(data[1], delim) = CountBeforeSpace(data[1], delim))

GuessAmong(data, delims) ==
    IF delims = {} THEN Guess("", FALSE) ELSE GuessWith(data, PickDelim(delims))

_guess_delimiter(sample, delimiters) ==
    GuessAmong(DataLines(sample), GuessedDelims(DataLines(sample), delimiters))

\* [^\w\n"']: what the quote patterns accept as a delimiter
DelimClass(c) == ~IsWord(c) /\ c # NL /\ c \notin QuoteChars

LineStart(s, i) == i = 1 \/ s[i - 1] = NL
LineEnd(s, i) == i = Len(s) \/ s[i + 1] = NL

\* the four patterns of _guess_quote_and_delimiter, in the order tried:
\*   1  delim space? quote .*? quote delim
\*   2  (^|\n) quote .*? quote delim space?
\*   3  delim space? quote .*? quote ($|\n)
\*   4  (^|\n) quote .*? quote ($|\n)
QuotePatterns == 1..4

\* where the opening quote stands for a match that starts at i
OpenAt(s, pat, i) ==
    IF pat \in {1, 3}
    THEN IF i + 1 <= Len(s) /\ s[i + 1] = SP THEN i + 2 ELSE i + 1
    ELSE IF s[i] = NL THEN i + 1 ELSE i

\* whether a match can start at i, up to its opening quote
OpensAt(s, pat, i) ==
    /\ IF pat \in {1, 3} THEN DelimClass(s[i]) ELSE s[i] = NL \/ LineStart(s, i)
    /\ OpenAt(s, pat, i) <= Len(s)
    /\ s[OpenAt(s, pat, i)] \in QuoteChars

\* the places where the lazy .*? may stop: the closing quote and what the
\* pattern wants after it
Closings(s, pat, i) ==
    {j \in (OpenAt(s, pat, i) + 1)..Len(s) :
        /\ s[j] = s[OpenAt(s, pat, i)]
        /\ CASE pat = 1 -> j + 1 <= Len(s) /\ s[j + 1] = s[i]
             [] pat = 2 -> j + 1 <= Len(s) /\ DelimClass(s[j + 1])
             [] OTHER -> LineEnd(s, j)}

MatchesAt(s, pat, i) == OpensAt(s, pat, i) /\ Closings(s, pat, i) # {}

\* the match that starts at i: its groups and its last position
SpaceAfter(s, j) == j + 2 <= Len(s) /\ s[j + 2] = SP

\* the match that starts at i and closes its quote at j
MatchClosedAt(s, pat, i, j) ==
    [quote |-> s[OpenAt(s, pat, i)],
     delim |-> CASE pat \in {1, 3} -> s[i] [] pat = 2 -> s[j + 1] [] OTHER -> "",
     space |-> CASE pat \in {1, 3} -> OpenAt(s, pat, i) = i + 2
                 [] pat = 2 -> SpaceAfter(s, j)
                 [] OTHER -> FALSE,
     last |-> CASE pat = 1 -> j + 1
                [] pat = 2 -> IF SpaceAfter(s, j) THEN j + 2 ELSE j + 1
                [] OTHER -> j]

Least(S) == CHOOSE x \in S : \A y \in S : x <= y

MatchAt(s, pat, i) == MatchClosedAt(s, pat, i, Least(Closings(s, pat, i)))

\* regexp.findall(data): the matches from left to right, none overlapping
RECURSIVE FindAllFrom(_, _, _), FoundThenRest(_, _, _)
FindAllFrom(s, pat, i) ==
    IF i > Len(s) THEN <<>>
    ELSE IF MatchesAt(s, pat, i)
    THEN FoundThenRest(s, pat, MatchAt(s, pat, i))
    ELSE FindAllFrom(s, pat, i + 1)

FoundThenRest(s, pat, m) == <<m>> \o FindAllFrom(s, pat, m.last + 1)

\* the matches of the first pattern that has any
QuoteMatches(s) ==
    IF \A pat \in QuotePatterns : FindAllFrom(s, pat, 1) = <<>> THEN <<>>
    ELSE FindAllFrom(s, CHOOSE pat \in QuotePatterns :
                            /\ FindAllFrom(s, pat, 1) # <<>>
                            /\ \A q \in 1..(pat - 1) : FindAllFrom(s, q, 1) = <<>>, 1)

\* max(counts, key=counts.get) over the keys of the matches that are in
\* keys: the most frequent, the first met among equals; "" when none
MostFrequentAt(ms, field, at) ==
    LET n(k) == Cardinality({i \in at : ms[i][field] = k})
        first(k) == Least({i \in at : ms[i][field] = k})
    IN  IF at = {} THEN ""
        ELSE ms[CHOOSE i \in at :
                   /\ i = first(ms[i][field])
                   /\ \A x \in at : \/ n(ms[i][field]) > n(ms[x][field])
                                    \/ /\ n(ms[i][field]) = n(ms[x][field])
                                       /\ i <= first(ms[x][field])][field]

MostFrequent(ms, field, keys) ==
    MostFrequentAt(ms, field, {i \in 1..Len(ms) : ms[i][field] \in keys})

\* dq_regexp.search(data): three quotes with no delimiter and no newline
\* between the first and the third, reached from a delimiter or a line
\* start, and followed up to a delimiter or a line end, over non-word
\* characters only
DoubleQuoted(s, quotechar, delim) ==
    \E q1 \in 1..Len(s), q3 \in 1..Len(s) :
        /\ q1 < q3 /\ s[q1] = quotechar /\ s[q3] = quotechar
        /\ \E q2 \in (q1 + 1)..(q3 - 1) : s[q2] = quotechar
        /\ \A x \in (q1 + 1)..(q3 - 1) : s[x] # NL /\ s[x] # delim
        /\ \/ delim = ""
           \/ \E b \in 1..q1 :
                  /\ \A x \in b..(q1 - 1) : ~IsWord(s[x])
                  /\ LineStart(s, b) \/ (b > 1 /\ s[b - 1] = delim)
        /\ \/ delim = ""
           \/ \E e \in q3..Len(s) :
                  /\ \A x \in (q3 + 1)..e : ~IsWord(s[x])
                  /\ LineEnd(s, e) \/ (e < Len(s) /\ s[e + 1] = delim)

\* _guess_quote_and_delimiter(data, delimiters)
\* the guess for the most frequent quote and delimiter of the matches
QuoteGuessWith(s, ms, quotechar, delim) ==
    [quotechar |-> quotechar,
     doublequote |-> DoubleQuoted(s, quotechar, delim),
     delimiter |-> delim,
     skipinitialspace |->
         /\ delim # ""
         /\ Cardinality({i \in 1..Len(ms) : ms[i].delim = delim})
                = Cardinality({i \in 1..Len(ms) : ms[i].space})]

QuoteGuess(s, ms, delimiters) ==
    IF ms = <<>>
    THEN [quotechar |-> "", doublequote |-> FALSE, delimiter |-> "",
          skipinitialspace |-> FALSE]
    ELSE QuoteGuessWith(s, ms, MostFrequent(ms, "quote", QuoteChars),
                        MostFrequent(ms, "delim", delimiters))

_guess_quote_and_delimiter(s, delimiters) == QuoteGuess(s, QuoteMatches(s), delimiters)

\* Sniffer.sniff: the quote patterns first, the frequency tables when they
\* give no delimiter; "Could not determine delimiter" is raised when
\* neither does.  The dialect's quotechar is '"' when none was found.
Dialect(byQuotes, found) ==
    [raised |-> found.delimiter = "",
     delimiter |-> found.delimiter,
     quotechar |-> IF byQuotes.quotechar # "" THEN byQuotes.quotechar ELSE DQ,
     doublequote |-> byQuotes.doublequote,
     skipinitialspace |-> found.skipinitialspace]

SniffFrom(byQuotes, byCounts) ==
    Dialect(byQuotes, IF byQuotes.delimiter # "" THEN byQuotes ELSE byCounts)

sniff(sample, delimiters) ==
    SniffFrom(_guess_quote_and_delimiter(sample, delimiters),
              _guess_delimiter(sample, delimiters))

\* the end-of-line mark the reader feeds itself after each line
EOL == "EOL"

\* the reader between two records
ReaderReset == [state |-> "START_RECORD", field |-> <<>>, fields |-> <<>>]

SaveField(st, next) ==
    [state |-> next, field |-> <<>>, fields |-> Append(st.fields, st.field)]

AddChar(st, c, next) ==
    [state |-> next, field |-> Append(st.field, c), fields |-> st.fields]

\* parse_process_char of the csv reader (no escapechar, not strict), for a
\* character of a line that holds no line break
ProcessChar(st, c, dialect) ==
    CASE st.state = "START_RECORD" /\ c = EOL -> st
      [] st.state \in {"START_RECORD", "START_FIELD"} /\ ~(st.state = "START_RECORD" /\ c = EOL) ->
            IF c = EOL THEN SaveField(st, "START_RECORD")
            ELSE IF c = dialect.quotechar THEN [st EXCEPT !.state = "IN_QUOTED_FIELD"]
            ELSE IF c = SP /\ dialect.skipinitialspace THEN [st EXCEPT !.state = "START_FIELD"]
            ELSE IF c = dialect.delimiter THEN SaveField(st, "START_FIELD")
            ELSE AddChar(st, c, "IN_FIELD")
      [] st.state = "IN_FIELD" ->
            IF c = EOL THEN SaveField(st, "START_RECORD")
            ELSE IF c = dialect.delimiter THEN SaveField(st, "START_FIELD")
            ELSE AddChar(st, c, "IN_FIELD")
      [] st.state = "IN_QUOTED_FIELD" ->
            IF c = EOL THEN st
            ELSE IF c = dialect.quotechar
            THEN [st EXCEPT !.state = IF dialect.doublequote THEN "QUOTE_IN_QUOTED_FIELD"
                                      ELSE "IN_FIELD"]
            ELSE AddChar(st, c, "IN_QUOTED_FIELD")
      [] OTHER ->
            IF c = dialect.quotechar THEN AddChar(st, c, "IN_QUOTED_FIELD")
            ELSE IF c = dialect.delimiter THEN SaveField(st, "START_FIELD")
            ELSE IF c = EOL THEN SaveField(st, "START_RECORD")
            ELSE AddChar(st, c, "IN_FIELD")

\* the characters of one line, then the end-of-line mark
RECURSIVE ProcessLine(_, _, _, _)
ProcessLine(st, ln, i, dialect) ==
    IF i > Len(ln) THEN ProcessChar(st, EOL, dialect)
    ELSE ProcessLine(ProcessChar(st, ln[i], dialect), ln, i + 1, dialect)

\* list(csv.reader(lines, dialect)): a record ends with the line unless a
\* quoted field is open; at the end of input an open record is returned
RECURSIVE ReadRows(_, _, _, _, _), AfterLine(_, _, _, _, _)
ReadRows(lines, k, st, rows, dialect) ==
    IF k > Len(lines)
    THEN IF st.field # <<>> \/ st.state = "IN_QUOTED_FIELD"
         THEN Append(rows, Append(st.fields, st.field))
         ELSE rows
    ELSE AfterLine(lines, k, ProcessLine(st, lines[k], 1, dialect), rows, dialect)

AfterLine(lines, k, st, rows, dialect) ==
    IF st.state = "START_RECORD"
    THEN ReadRows(lines, k + 1, ReaderReset, Append(rows, st.fields), dialect)
    ELSE ReadRows(lines, k + 1, st, rows, dialect)

\* the body of the try block up to rows: whether it raised, and the rows
RowsRead(txt, dialect) ==
    IF dialect.raised THEN [raised |-> TRUE, rows |-> <<>>]
    ELSE [raised |-> FALSE,
          rows |-> ReadRows(splitlines(txt), 1, ReaderReset, <<>>, dialect)]

SniffedRows(txt) == RowsRead(txt, sniff(txt, Delimiters))

\* the grid of the tab strategy
TabCells(cells) == [j \in 1..Len(cells) |-> Strip(cells[j])]
TabRowsOf(lines) == [i \in 1..Len(lines) |-> TabCells(SplitOn(lines[i], TAB))]
TabRows(txt) == TabRowsOf(splitlines(txt))

\* the grid of the whitespace strategy
\* rows.append(parts if parts else [ln.strip()])
WhitespaceRow(parts, stripped) == IF parts # <<>> THEN parts ELSE <<stripped>>
WhitespaceRowsOf(lines) ==
    [i \in 1..Len(lines) |-> WhitespaceRow(WsSplit(Strip(lines[i])), Strip(lines[i]))]
WhitespaceRows(txt) == WhitespaceRowsOf(splitlines(txt))

\* an acceptance that takes any rows the reader returned
SniffAccepted_AnyRows(sniffed) == ~sniffed.raised /\ sniffed.rows # <<>>

\* the sniffed rows are returned when one of them has more than one column
SniffAccepted(sniffed) ==
    ~sniffed.raised /\ \E i \in 1..Len(sniffed.rows) : Len(sniffed.rows[i]) > 1

StripCells(rows) ==
    [i \in 1..Len(rows) |-> [j \in 1..Len(rows[i]) |-> Strip(rows[i][j])]]

\* a parse_table_text that lets the exception of the sniffing out
\* the grid for a text stripped of its newlines and the outcome of the try
\* block: the sniffed rows, else the tab or the whitespace strategy
GridOf(txt, sniffed) ==
    IF SniffAccepted(sniffed) THEN StripCells(sniffed.rows)
    ELSE IF \E i \in 1..Len(txt) : txt[i] = TAB THEN TabRows(txt)
    ELSE WhitespaceRows(txt)

ParseStripped(txt) == IF txt = <<>> THEN <<>> ELSE GridOf(txt, SniffedRows(txt))

\* the same without the except clause: the exception leaves the function
GridOf_Unguarded(txt, sniffed) ==
    IF sniffed.raised THEN <<<<<<"raise">>>>>> ELSE GridOf(txt, sniffed)

ParseStripped_Unguarded(txt) ==
    IF txt = <<>> THEN <<>> ELSE GridOf_Unguarded(txt, SniffedRows(txt))

\* a parse_table_text that lets the exception of the sniffing out
parse_table_text_Unguarded(text) == ParseStripped_Unguarded(StripNL(text))

\* parse_table_text(text)
parse_table_text(text) == ParseStripped(StripNL(text))

\* data = it.table_data if it.table_data else parse_table_text(it.content)
TableDataOf(it) == IF it.table_data # <<>> THEN it.table_data ELSE parse_table_text(it.content)

\* imgs = it.images if it.images else ([it.image_path] if it.image_path else [])
ImagesOf(it) ==
    IF it.images # <<>> THEN it.images
    ELSE IF PathGiven(it.image_path) THEN <<it.image_path>> ELSE <<>>

-----------------------------------------------------------------------------
(* _export_docx: the paragraphs, tables and pictures added to the document *)

_H1(text) == Heading(1, text)
_H2(text) == Heading(2, text)
_H3(text) == Heading(3, text)
_body_para(text, level) == Para(level, text)
_list_para(text, numbered, level) == ListItemBlk(level, text, numbered)

When(cond, blocks) == IF cond THEN blocks ELSE <<>>

\* one _list_para per entry of a list field
DocxList(xs, numbered, level) ==
    [i \in 1..Len(xs) |-> _list_para(xs[i], numbered, level)]

\* rows = len(data); cols = max(len(rw)); every cell of the grid is set,
\* the missing ones to ""
DocxGrid(data) ==
    LET cols == SeqMax([i \in 1..Len(data) |-> Len(data[i])])
    IN  [i \in 1..Len(data) |->
            [j \in 1..cols |-> IF j <= Len(data[i]) THEN data[i][j] ELSE <<>>]]

\* the picture of one path and its caption: nothing for a path that is
\* empty, not a file, or that add_picture cannot read (except: continue)
DocxPicture(pth, caption) ==
    IF PathGiven(pth) /\ isfile(pth) /\ Decodable(pth)
    THEN <<ImageBlk(pth)>> \o When(caption # <<>>, <<CaptionBlk(caption)>>)
    ELSE <<>>

\* if data: the table of the grid, in the item's style
DocxTable(data, style) ==
    When(data # <<>>, <<TableBlk(DocxGrid(data), DocxStyle(style))>>)

DocxResultItem(it, idx) ==
    IF it.kind = "text"
    THEN <<_H3(<<"2.4.", Numeral(idx), ". ">> \o it.title)>> \o
         [i \in 1..Len(safe_split_lines(it.content)) |->
             _body_para(safe_split_lines(it.content)[i], 3)]
    ELSE IF it.kind = "table"
    THEN <<_H3(it.title)>> \o DocxTable(TableDataOf(it), it.table_style)
    ELSE IF it.kind = "image"
    THEN When(ImagesOf(it) # <<>>,
              When(it.title # <<>>, <<_H3(it.title)>>) \o
              FlattenSeq([i \in 1..Len(ImagesOf(it)) |->
                             DocxPicture(ImagesOf(it)[i], it.caption)]))
    ELSE <<>>

DocxSmart(r) ==
    FlattenSeq([i \in 1..Len(SmartKeys) |->
        When(Strip(r.smart_goals[SmartKeys[i]]) # <<>>,
             <<_body_para(<<SmartLabel[SmartKeys[i]], ": ">> \o r.smart_goals[SmartKeys[i]], 3)>>)])

DocxGeneral(r, inc) ==
    When(inc["sec_general"],
         <<_H1(<<NL, "1. General Information">>), TableBlk(GeneralRows(r), "")>>)

\* a Methods section that moves the procedure to the front when the
\* instruments are disabled
DocxMethods_ProcedureMoves(r, inc) ==
    When(inc["t_methods"],
         <<_H2(Lit("2.3. Methods"))>> \o
         When(inc["t_proc"] /\ ~inc["t_ins"],
              <<_H3(Lit("2.3.3. Experimental Procedure"))>> \o DocxList(r.methods_procedure, FALSE, 3)) \o
         When(inc["t_rm"],
              <<_H3(Lit("2.3.1. Raw Materials"))>> \o DocxList(r.methods_raw_materials, FALSE, 3)) \o
         When(inc["t_ins"],
              <<_H3(Lit("2.3.2. Instrument"))>> \o DocxList(r.methods_instruments, FALSE, 3)) \o
         When(inc["t_proc"] /\ inc["t_ins"],
              <<_H3(Lit("2.3.3. Experimental Procedure"))>> \o DocxList(r.methods_procedure, FALSE, 3)) \o
         When(inc["t_trial"],
              <<_H3(Lit("2.3.4. Trial History"))>> \o
              When(r.trial_history # <<>>,
                   <<TableBlk(TrialRows(r), DocxStyle(r.trial_docx_style))>>)))

DocxMethods(r, inc) ==
    When(inc["t_methods"],
         <<_H2(Lit("2.3. Methods"))>> \o
         When(inc["t_rm"],
              <<_H3(Lit("2.3.1. Raw Materials"))>> \o DocxList(r.methods_raw_materials, FALSE, 3)) \o
         When(inc["t_ins"],
              <<_H3(Lit("2.3.2. Instrument"))>> \o DocxList(r.methods_instruments, FALSE, 3)) \o
         When(inc["t_proc"],
              <<_H3(Lit("2.3.3. Experimental Procedure"))>> \o DocxList(r.methods_procedure, FALSE, 3)) \o
         When(inc["t_trial"],
              <<_H3(Lit("2.3.4. Trial History"))>> \o
              When(r.trial_history # <<>>,
                   <<TableBlk(TrialRows(r), DocxStyle(r.trial_docx_style))>>)))

DocxResults(r, inc) ==
    When(inc["t_results"],
         <<_H2(Lit("2.4. Results"))>> \o
         FlattenSeq([i \in 1..Len(r.results) |-> DocxResultItem(r.results[i], i)]))

DocxTechnical(r, inc) ==
    <<_H1(<<NL, "2. Technical Information">>)>> \o
    When(inc["t_plain"],
         <<_H2(Lit("2.1. Plain Language Summary")), _body_para(r.plain_summary, 2)>>) \o
    When(inc["t_objectives"],
         <<_H2(Lit("2.2. Objectives"))>> \o DocxList(r.objectives, TRUE, 2)) \o
    DocxMethods(r, inc) \o
    DocxResults(r, inc) \o
    When(inc["t_conc"],
         <<_H2(Lit("2.5. Conclusion"))>> \o DocxList(r.conclusion, FALSE, 2)) \o
    When(inc["t_misc"],
         <<_H2(Lit("2.6. Miscellaneous")), _body_para(r.miscellaneous, 2)>>) \o
    When(inc["t_refs"],
         <<_H2(Lit("2.7. References"))>> \o DocxList(r.references, FALSE, 2))

DocxRegulatory(r, inc) ==
    When(inc["sec_reg"],
         <<_H1(<<NL, "3. Regulatory">>),
           _H2(Lit("3.1. Application regulations")), _body_para(r.regulations, 2),
           _H2(Lit("3.2. Label Requirements")), _body_para(r.label_req, 2),
           _H2(Lit("3.3. Certification Requirements")), _body_para(r.certification_req, 2)>>)

DocxScaleUp(r, inc) ==
    When(inc["sec_scale"],
         <<_H1(<<NL, "4. Scale Up">>), _H2(Lit("4.1. Manufacturing Order"))>> \o
         DocxList(r.manuf_order_steps, FALSE, 2) \o
         <<_H2(Lit("4.2. Formulation Risk")), _body_para(r.formulation_risk_text, 2),
           _H2(Lit("4.3. Hazards")), _body_para(r.hazards_text, 2),
           _H2(Lit("4.4. Equipment")), _body_para(r.equipment_text, 2),
           _H2(Lit("4.5. CAPEX Requirements")), _body_para(r.capex_text, 2),
           _H2(Lit("4.6. Safety Assessment")), _body_para(r.safety_assess_text, 2)>>)

DocxQuality(r, inc) ==
    When(inc["sec_quality"],
         <<_H1(<<NL, "5. Quality">>),
           _H2(Lit("5.1. Raw Material Sourcing")), _body_para(r.raw_material_sourcing, 2),
           _H2(Lit("5.2. LIMS Setup")), _body_para(r.lims_setup, 2),
           _H2(Lit("5.3. Stability Testing")), _body_para(r.stability_testing, 2),
           _H2(Lit("5.4. Packaging Compatibility")), _body_para(r.packaging_compatibility, 2)>>)

DocxCommercial(r, inc) ==
    When(inc["sec_commercial"],
         <<_H1(<<NL, "6. Commercial">>),
           _H2(Lit("6.1. Customer Objectives / Problem Statement")), _body_para(r.c_obj_problem, 2),
           _H2(Lit("6.2. SMART Success Criteria"))>> \o
         DocxSmart(r) \o
         <<_H2(Lit("6.3. Customer Specifications")), _body_para(r.c_specs, 2),
           _H2(Lit("6.4. Expected Business Volume")), _body_para(r.c_expected_volume, 2),
           _H2(Lit("6.5. Packaging Requirement")), _body_para(r.c_packaging_req, 2),
           _H2(Lit("6.6. Raw Material Restrictions / Preferences")), _body_para(r.c_raw_material_prefs, 2),
           _H2(Lit("6.7. Sample Needed")), _body_para(r.c_sample_needed, 2),
           _H2(Lit("6.8. Opportunity Timeline")), _body_para(r.c_opportunity_timeline, 2),
           _H2(Lit("6.9. Target Application")), _body_para(r.target_application, 2),
           _H2(Lit("6.10. Customer Feedback")), _body_para(r.customer_feedback, 2),
           _H2(Lit("6.11. TDS Development")), _body_para(r.tds_development, 2),
           _H2(Lit("6.12. Email Correspondence"))>> \o
         When(r.email_correspondence # <<>>, <<TableBlk(EmailRows(r), "Table Grid")>>))

\* the body of the document, in the order the code adds it
DocxBody(r, inc) ==
    <<Blk("title", 0, r.project_title)>> \o
    DocxGeneral(r, inc) \o DocxTechnical(r, inc) \o DocxRegulatory(r, inc) \o
    DocxScaleUp(r, inc) \o DocxQuality(r, inc) \o DocxCommercial(r, inc)

\* _export_docx: builds the body, then doc.save(out_path), which raises
\* when the file cannot be written
_export_docx(r, inc, header_img, footer_img, writable) ==
    [raised |-> ~writable,
     blocks |-> DocxBody(r, inc),
     header |-> header_img, footer |-> footer_img]

-----------------------------------------------------------------------------
(* _export_pdf_basic: the flowables appended to the story                  *)

\* text.replace("\n", "<br/>")
BrText(text) == [i \in 1..Len(text) |-> IF text[i] = NL THEN "<br/>" ELSE text[i]]

PdfPara(text, level) == Para(level, BrText(text))

\* a table that takes the rows as they are
PdfGrid_ShortRows(data) == data

\* Table(data, colWidths=...): a short row is filled with '' to the column
\* count (reportlab's allowShortTableRows)
PdfGrid(data) ==
    LET ncols == SeqMax([i \in 1..Len(data) |-> Len(data[i])])
    IN  [i \in 1..Len(data) |->
            [j \in 1..ncols |-> IF j <= Len(data[i]) THEN data[i][j] ELSE <<>>]]

\* the flowables of one path: RLImage is appended for every existing file,
\* readable or not; it is opened when the document is built
PdfPicture(pth, caption) ==
    IF PathGiven(pth) /\ isfile(pth)
    THEN <<ImageBlk(pth)>> \o When(caption # <<>>, <<CaptionBlk(caption)>>)
    ELSE <<>>

\* lengths in units of 1/254 point, in which the inch (72 points) and the
\* millimetre (72/25.4 points) of reportlab are whole numbers
inch == 72 * 254
mm == 720

\* reportlab.lib.pagesizes.A4: (210*mm, 297*mm)
A4 == <<210 * mm, 297 * mm>>

\* col_w = [total_w / max(1, ncols)] * ncols with total_w = 7.0 * inch; the
\* division is exact for the column counts of the model
col_w(data) ==
    LET ncols == SeqMax([i \in 1..Len(data) |-> Len(data[i])])
    IN  [j \in 1..ncols |-> (7 * inch) \div (IF ncols < 1 THEN 1 ELSE ncols)]

\* if data: the table of the grid with its column widths; else: the raw
\* text as a paragraph
PdfTable(data, content) ==
    IF data # <<>>
    THEN <<[TableBlk(PdfGrid(data), "grid") EXCEPT !.colWidths = col_w(data)]>>
    ELSE <<PdfPara(content, 3)>>

PdfResultItem(it, i) ==
    IF it.kind = "text"
    THEN <<_H3(<<"2.4.", Numeral(i), ". ">> \o it.title), PdfPara(it.content, 3)>>
    ELSE IF it.kind = "table"
    THEN <<_H3(it.title)>> \o PdfTable(TableDataOf(it), it.content)
    ELSE IF it.kind = "image"
    THEN When(ImagesOf(it) # <<>>,
              When(it.title # <<>>, <<_H3(it.title)>>) \o
              FlattenSeq([k \in 1..Len(ImagesOf(it)) |->
                             PdfPicture(ImagesOf(it)[k], it.caption)]))
    ELSE <<>>

PdfSmart(r) ==
    FlattenSeq([i \in 1..Len(SmartKeys) |->
        When(Strip(r.smart_goals[SmartKeys[i]]) # <<>>,
             <<Para(3, <<SmartLabel[SmartKeys[i]], ": ">> \o Strip(r.smart_goals[SmartKeys[i]]))>>)])

PdfGeneral(r, inc) ==
    When(inc["sec_general"],
         <<_H1(Lit("1. General Information")), TableBlk(GeneralRows(r), "grid")>>)

\* a PdfMethods whose Instrument subsection hangs on the raw-materials key
PdfMethods_InsUnderRm(r, inc) ==
    When(inc["t_methods"],
         <<_H2(Lit("2.3. Methods"))>> \o
         When(inc["t_rm"],
              <<_H3(Lit("2.3.1. Raw Materials")), ListBlk(3, r.methods_raw_materials, FALSE),
                _H3(Lit("2.3.2. Instrument")), ListBlk(3, r.methods_instruments, FALSE)>>) \o
         When(inc["t_proc"],
              <<_H3(Lit("2.3.3. Experimental Procedure")), ListBlk(3, r.methods_procedure, FALSE)>>) \o
         When(inc["t_trial"],
              <<_H3(Lit("2.3.4. Trial History"))>> \o
              When(r.trial_history # <<>>, <<TableBlk(TrialRows(r), "grid")>>)))

PdfMethods(r, inc) ==
    When(inc["t_methods"],
         <<_H2(Lit("2.3. Methods"))>> \o
         When(inc["t_rm"],
              <<_H3(Lit("2.3.1. Raw Materials")), ListBlk(3, r.methods_raw_materials, FALSE)>>) \o
         When(inc["t_ins"],
              <<_H3(Lit("2.3.2. Instrument")), ListBlk(3, r.methods_instruments, FALSE)>>) \o
         When(inc["t_proc"],
              <<_H3(Lit("2.3.3. Experimental Procedure")), ListBlk(3, r.methods_procedure, FALSE)>>) \o
         When(inc["t_trial"],
              <<_H3(Lit("2.3.4. Trial History"))>> \o
              When(r.trial_history # <<>>, <<TableBlk(TrialRows(r), "grid")>>)))

PdfResults(r, inc) ==
    When(inc["t_results"],
         <<_H2(Lit("2.4. Results"))>> \o
         FlattenSeq([i \in 1..Len(r.results) |-> PdfResultItem(r.results[i], i)]))

PdfTechnical(r, inc) ==
    <<_H1(Lit("2. Technical Information"))>> \o
    When(inc["t_plain"],
         <<_H2(Lit("2.1. Plain Language Summary")), PdfPara(r.plain_summary, 2)>>) \o
    When(inc["t_objectives"],
         <<_H2(Lit("2.2. Objectives"))>> \o
         When(r.objectives # <<>>, <<ListBlk(2, r.objectives, TRUE)>>)) \o
    PdfMethods(r, inc) \o
    PdfResults(r, inc) \o
    When(inc["t_conc"],
         <<_H2(Lit("2.5. Conclusion")), ListBlk(2, r.conclusion, FALSE)>>) \o
    When(inc["t_misc"],
         <<_H2(Lit("2.6. Miscellaneous")), PdfPara(r.miscellaneous, 2)>>) \o
    When(inc["t_refs"],
         <<_H2(Lit("2.7. References")), ListBlk(2, r.references, FALSE)>>)

PdfRegulatory(r, inc) ==
    When(inc["sec_reg"],
         <<_H1(Lit("3. Regulatory")),
           _H2(Lit("3.1. Application regulations")), PdfPara(r.regulations, 2),
           _H2(Lit("3.2. Label Requirements")), PdfPara(r.label_req, 2),
           _H2(Lit("3.3. Certification Requirements")), PdfPara(r.certification_req, 2)>>)

PdfScaleUp(r, inc) ==
    When(inc["sec_scale"],
         <<_H1(Lit("4. Scale Up")), _H2(Lit("4.1. Manufacturing Order"))>> \o
         When(r.manuf_order_steps # <<>>, <<ListBlk(2, r.manuf_order_steps, FALSE)>>) \o
         <<_H2(Lit("4.2. Formulation Risk")), PdfPara(r.formulation_risk_text, 2),
           _H2(Lit("4.3. Hazards")), PdfPara(r.hazards_text, 2),
           _H2(Lit("4.4. Equipment")), PdfPara(r.equipment_text, 2),
           _H2(Lit("4.5. CAPEX Requirements")), PdfPara(r.capex_text, 2),
           _H2(Lit("4.6. Safety Assessment")), PdfPara(r.safety_assess_text, 2)>>)

PdfQuality(r, inc) ==
    When(inc["sec_quality"],
         <<_H1(Lit("5. Quality")),
           _H2(Lit("5.1. Raw Material Sourcing")), PdfPara(r.raw_material_sourcing, 2),
           _H2(Lit("5.2. LIMS Setup")), PdfPara(r.lims_setup, 2),
           _H2(Lit("5.3. Stability Testing")), PdfPara(r.stability_testing, 2),
           _H2(Lit("5.4. Packaging Compatibility")), PdfPara(r.packaging_compatibility, 2)>>)

PdfCommercial(r, inc) ==
    When(inc["sec_commercial"],
         <<_H1(Lit("6. Commercial")),
           _H2(Lit("6.1. Customer Objectives / Problem Statement")), PdfPara(r.c_obj_problem, 2),
           _H2(Lit("6.2. SMART Success Criteria"))>> \o
         PdfSmart(r) \o
         <<_H2(Lit("6.3. Customer Specifications")), PdfPara(r.c_specs, 2),
           _H2(Lit("6.4. Expected Business Volume")), PdfPara(r.c_expected_volume, 2),
           _H2(Lit("6.5. Packaging Requirement")), PdfPara(r.c_packaging_req, 2),
           _H2(Lit("6.6. Raw Material Restrictions / Preferences")), PdfPara(r.c_raw_material_prefs, 2),
           _H2(Lit("6.7. Sample Needed")), PdfPara(r.c_sample_needed, 2),
           _H2(Lit("6.8. Opportunity Timeline")), PdfPara(r.c_opportunity_timeline, 2),
           _H2(Lit("6.9. Target Application")), PdfPara(r.target_application, 2),
           _H2(Lit("6.10. Customer Feedback")), PdfPara(r.customer_feedback, 2),
           _H2(Lit("6.11. TDS Development")), PdfPara(r.tds_development, 2),
           _H2(Lit("6.12. Email Correspondence"))>> \o
         When(r.email_correspondence # <<>>, <<TableBlk(EmailRows(r), "grid")>>))

\* story, in the order the code appends to it
PdfStory(r, inc) ==
    <<Blk("title", 0, r.project_title)>> \o
    PdfGeneral(r, inc) \o PdfTechnical(r, inc) \o PdfRegulatory(r, inc) \o
    PdfScaleUp(r, inc) \o PdfQuality(r, inc) \o PdfCommercial(r, inc)

\* doc.build(story) opens every image of the story; a file that cannot be
\* decoded raises there and nothing catches it
StoryReadable(story) ==
    \A i \in 1..Len(story) : story[i].kind = "image" => Decodable(story[i].text[1])

\* _export_pdf_basic: "nolib" when reportlab is missing (an error box, no
\* file); otherwise the story is built and doc.build writes it, raising on
\* an unreadable image or an unwritable file; "PDF saved" follows a build
\* that returned
_export_pdf_basic(r, inc, header_img, footer_img, have_reportlab, writable) ==
    IF ~have_reportlab
    THEN [status |-> "nolib", blocks |-> <<>>, header |-> None, footer |-> None]
    ELSE [status |-> IF StoryReadable(PdfStory(r, inc)) /\ writable THEN "ok" ELSE "raised",
          blocks |-> PdfStory(r, inc),
          header |-> header_img, footer |-> footer_img]

-----------------------------------------------------------------------------
(* _generate                                                               *)

\* the day of the run, datetime.date.today().isoformat()
Today == "today"

\* base = f"{title.replace(os.sep, '_')}_{today}"
BaseName(title) ==
    [i \in 1..Len(title) |-> IF title[i] = "/" THEN "_" ELSE title[i]] \o <<"_", Today>>

DocxPath(title) == BaseName(title) \o <<".docx">>
PdfPath(title) == BaseName(title) \o <<".pdf">>

\* path if os.path.isfile(path) else None
BandImage(path) == IF isfile(path) THEN path ELSE None

\* files[path] = content
WriteFile(files, path, content) ==
    [q \in DOMAIN files \cup {path} |-> IF q = path THEN content ELSE files[q]]

\* what docx2pdf_convert writes: the pages of the docx file it was given
Converted(docx) == [kind |-> "pdf", via |-> "docx2pdf", blocks |-> docx.blocks, of |-> docx.of]

Run(events, files, outcome, r) ==
    [events |-> events, fs |-> files, outcome |-> outcome, r |-> r]

\* self._export_pdf_basic(r, pdf_path, ...) called from _generate: the
\* error box without reportlab, the exception of doc.build, or the file
\* and the "PDF saved" box
PdfBasicStage(r, inc, br, lb, files, env, ev) ==
    LET res == _export_pdf_basic(r, inc, BandImage(br.header_path), BandImage(br.footer_path),
                                 lb.SimpleDocTemplate, env.pdf_writable)
    IN  IF res.status = "nolib"
        THEN Run(ev \o <<"export_pdf_basic", "error:reportlab not found">>, files, "returned", r)
        ELSE IF res.status = "raised"
        THEN Run(ev \o <<"export_pdf_basic", "raise:doc.build">>, files, "raised", r)
        ELSE Run(ev \o <<"export_pdf_basic", "info:PDF saved">>,
                 WriteFile(files, PdfPath(r.project_title),
                           [kind |-> "pdf", via |-> "reportlab", blocks |-> res.blocks, of |-> r]),
                 "returned", r)

\* a PdfStage that runs the basic exporter although the conversion succeeded
PdfStage_BasicAfterConvert(r, inc, fmt, br, lb, files, env, ev) ==
    IF fmt \notin {"pdf", "both"} THEN Run(ev, files, "returned", r)
    ELSE IF lb.docx2pdf_convert /\ DocxPath(r.project_title) \in DOMAIN files
    THEN PdfBasicStage(r, inc, br, lb,
                       IF env.convert_ok
                       THEN WriteFile(files, PdfPath(r.project_title),
                                      Converted(files[DocxPath(r.project_title)]))
                       ELSE files,
                       env, ev \o <<"convert">>)
    ELSE PdfBasicStage(r, inc, br, lb, files, env, ev)

\* if want in ("pdf", "both"): the conversion when docx2pdf is there and
\* the docx file exists, the basic exporter otherwise or when it raised
PdfStage(r, inc, fmt, br, lb, files, env, ev) ==
    IF fmt \notin {"pdf", "both"} THEN Run(ev, files, "returned", r)
    ELSE IF lb.docx2pdf_convert /\ DocxPath(r.project_title) \in DOMAIN files
    THEN IF env.convert_ok
         THEN Run(ev \o <<"convert", "info:PDF saved">>,
                  WriteFile(files, PdfPath(r.project_title),
                            Converted(files[DocxPath(r.project_title)])),
                  "returned", r)
         ELSE PdfBasicStage(r, inc, br, lb, files, env, ev \o <<"convert", "caught:convert">>)
    ELSE PdfBasicStage(r, inc, br, lb, files, env, ev)

\* a DocxStage that swallows the exception of doc.save and goes on
DocxStage_SwallowsRaise(r, inc, fmt, br, lb, files, env, ev) ==
    IF fmt \notin {"docx", "both"} THEN PdfStage(r, inc, fmt, br, lb, files, env, ev)
    ELSE IF ~lb.Document
    THEN Run(ev \o <<"error:python-docx not found">>, files, "returned", r)
    ELSE PdfStage(r, inc, fmt, br, lb,
                  IF env.docx_writable
                  THEN WriteFile(files, DocxPath(r.project_title),
                                 [kind |-> "docx", via |-> "python-docx",
                                  blocks |-> DocxBody(r, inc), of |-> r])
                  ELSE files,
                  env,
                  ev \o (IF env.docx_writable THEN <<"export_docx">>
                         ELSE <<"export_docx", "raise:doc.save">>) \o <<"info:DOCX saved">>)

\* if want in ("docx", "both"): the error box and return without
\* python-docx, else the export, whose exception leaves _generate
DocxStage(r, inc, fmt, br, lb, files, env, ev) ==
    IF fmt \notin {"docx", "both"} THEN PdfStage(r, inc, fmt, br, lb, files, env, ev)
    ELSE IF ~lb.Document
    THEN Run(ev \o <<"error:python-docx not found">>, files, "returned", r)
    ELSE IF _export_docx(r, inc, BandImage(br.header_path), BandImage(br.footer_path),
                         env.docx_writable).raised
    THEN Run(ev \o <<"export_docx", "raise:doc.save">>, files, "raised", r)
    ELSE PdfStage(r, inc, fmt, br, lb,
                  WriteFile(files, DocxPath(r.project_title),
                            [kind |-> "docx", via |-> "python-docx",
                             blocks |-> DocxBody(r, inc), of |-> r]),
                  env, ev \o <<"export_docx", "info:DOCX saved">>)

\* a _generate that tests the raw title instead of the collected one
GenerateRun_RawTitle(fm, inc, fmt, br, lb, files, env) ==
    LET r == _collect(fm)
    IN  IF fm.project_title = <<>>
        THEN Run(<<"warn:Missing title">>, files, "returned", r)
        ELSE IF ~env.mkdir_ok
        THEN Run(<<"makedirs", "raise:makedirs">>, files, "raised", r)
        ELSE DocxStage(r, inc, fmt, br, lb, files, env, <<"makedirs">>)

\* _generate as a whole: collect, the title check, ensure_dir, the stages
GenerateRun(fm, inc, fmt, br, lb, files, env) ==
    LET r == _collect(fm)
    IN  IF r.project_title = <<>>
        THEN Run(<<"warn:Missing title">>, files, "returned", r)
        ELSE IF ~env.mkdir_ok
        THEN Run(<<"makedirs", "raise:makedirs">>, files, "raised", r)
        ELSE DocxStage(r, inc, fmt, br, lb, files, env, <<"makedirs">>)

\* what the file system and the converter do in one run
Envs ==
    [mkdir_ok : BOOLEAN, docx_writable : BOOLEAN, convert_ok : BOOLEAN,
     pdf_writable : BOOLEAN]

-----------------------------------------------------------------------------
(* Handlers as actions                                                     *)

Idle == [op |-> "none"]

\* the "Generate Report" button
Generate ==
    \E env \in Envs :
        LET run == GenerateRun(form, include, export_fmt, branding, libs, fs, env)
        IN  /\ fs' = run.fs
            /\ last' = [op |-> "generate", events |-> run.events,
                        outcome |-> run.outcome, r |-> run.r, form |-> form,
                        fmt |-> export_fmt, fs_before |-> fs]
            /\ UNCHANGED <<form, include, export_fmt, branding, libs, current_file_path, dialogs>>

\* the user picks another export format (the radio buttons of _tab_export)
SetFormat ==
    \E v \in {"docx", "pdf", "both"} :
        /\ v # export_fmt
        /\ export_fmt' = v
        /\ last' = [op |-> "set_format"]
        /\ UNCHANGED <<form, include, branding, libs, fs, current_file_path, dialogs>>

\* the user retypes the plain-language summary
SummaryChoices == {<<>>, <<"a">>}

EditSummary ==
    \E v \in SummaryChoices :
        /\ v # form.plain_summary
        /\ form' = [form EXCEPT !.plain_summary = v]
        /\ last' = [op |-> "edit"]
        /\ UNCHANGED <<include, export_fmt, branding, libs, fs, current_file_path, dialogs>>

DefaultBranding ==
    [header_path |-> "Header.png", footer_path |-> "Footer.png", logo_path |-> "Logo_Only.png"]

Libs == [Document : BOOLEAN, SimpleDocTemplate : BOOLEAN, docx2pdf_convert : BOOLEAN]

NoFiles == [q \in {} |-> None]

-----------------------------------------------------------------------------
(* Generation: a form with a title typed in, any installation of the       *)
(* optional libraries, and repeated runs of _generate                      *)

TitleChoices == {<<>>, <<SP>>, <<"T">>, <<SP, "T", SP>>}

BadImageItem == ResultItem([title |-> <<"i">>, kind |-> "image", images |-> <<"bad.png">>])

GenResultChoices == {<<>>, <<BadImageItem>>}

InitGenerate ==
    /\ form \in {[FreshForm EXCEPT !.project_title = t, !.results = rs] :
                    t \in TitleChoices, rs \in GenResultChoices}
    /\ include = AllEnabled
    /\ export_fmt = "both"
    /\ branding = DefaultBranding
    /\ libs \in Libs
    /\ fs = NoFiles
    /\ current_file_path = None
    /\ dialogs = <<>>
    /\ last = Idle

NextGenerate == Generate \/ SetFormat \/ EditSummary

SpecGenerate == InitGenerate /\ [][NextGenerate]_vars

-----------------------------------------------------------------------------
(* Claims about _generate                                                  *)

Has(events, e) == \E i \in 1..Len(events) : events[i] = e
Generated == last.op = "generate"
RenderEvents == {"export_docx", "convert", "export_pdf_basic"}

\* C1: when the collected title is empty after trimming, _generate shows
\* the validation warning and returns before the output directory is
\* created and before any renderer runs; no docx or pdf file is written.
C1_EmptyTitleRejected ==
    (Generated /\ Strip(last.form.project_title) = <<>>) =>
        /\ last.events = <<"warn:Missing title">>
        /\ last.outcome = "returned"
        /\ ~Has(last.events, "makedirs")
        /\ \A e \in RenderEvents : ~Has(last.events, e)
        /\ fs = last.fs_before

\* a run on a title of only whitespace, rejected
C1_Witness ==
    /\ Generated
    /\ last.form.project_title = <<SP>>
    /\ last.events = <<"warn:Missing title">>

\* C2: with both formats requested and the writer library of one format
\* missing, the other format is still attempted: without python-docx the
\* PDF output is attempted, without reportlab the docx is still written.
C2_OtherFormatStillAttempted ==
    (Generated /\ last.fmt = "both" /\ last.r.project_title # <<>>
        /\ ~Has(last.events, "raise:makedirs")) =>
        /\ ~libs.Document =>
              (Has(last.events, "convert") \/ Has(last.events, "export_pdf_basic"))
        /\ (libs.Document /\ ~libs.SimpleDocTemplate /\ ~Has(last.events, "raise:doc.save")) =>
              Has(last.events, "info:DOCX saved")

\* C3: a write failure of an output file ends the run as a failure, a
\* "saved" box of a format directly follows that format's writer having
\* returned, and the file it reports is on disk.
C3_SavedOnlyAfterWrite ==
    Generated =>
        /\ \A e \in {"raise:doc.save", "raise:doc.build", "raise:makedirs"} :
              Has(last.events, e) => last.outcome = "raised"
        /\ Has(last.events, "raise:makedirs") => fs = last.fs_before
        /\ Has(last.events, "raise:doc.save") =>
              (~Has(last.events, "info:DOCX saved") /\ fs = last.fs_before)
        /\ Has(last.events, "raise:doc.build") =>
              /\ ~Has(last.events, "info:PDF saved")
              /\ PdfPath(last.r.project_title) \in DOMAIN fs =>
                    /\ PdfPath(last.r.project_title) \in DOMAIN last.fs_before
                    /\ fs[PdfPath(last.r.project_title)] =
                          last.fs_before[PdfPath(last.r.project_title)]
        /\ \A i \in 1..Len(last.events) :
              /\ last.events[i] = "info:DOCX saved" =>
                    /\ i > 1 /\ last.events[i - 1] = "export_docx"
                    /\ DocxPath(last.r.project_title) \in DOMAIN fs
                    /\ fs[DocxPath(last.r.project_title)].of = last.r
              /\ last.events[i] = "info:PDF saved" =>
                    /\ i > 1 /\ last.events[i - 1] \in {"convert", "export_pdf_basic"}
                    /\ PdfPath(last.r.project_title) \in DOMAIN fs
                    /\ fs[PdfPath(last.r.project_title)].kind = "pdf"
        /\ last.outcome = "raised" =>
              last.events[Len(last.events)] \in {"raise:doc.save", "raise:doc.build", "raise:makedirs"}

\* the docx was saved and reported, then the PDF build raised
C3_Witness ==
    /\ Generated
    /\ Has(last.events, "info:DOCX saved")
    /\ Has(last.events, "raise:doc.build")
    /\ last.outcome = "raised"

\* the run reached "if want in ('pdf', 'both')" with these files on disk
PdfStageReached ==
    /\ Generated /\ last.fmt \in {"pdf", "both"}
    /\ last.r.project_title # <<>>
    /\ ~Has(last.events, "raise:makedirs")
    /\ last.fmt = "both" => Has(last.events, "info:DOCX saved")

ConversionAvailable ==
    /\ libs.docx2pdf_convert
    /\ \/ DocxPath(last.r.project_title) \in DOMAIN last.fs_before
       \/ Has(last.events, "info:DOCX saved")

Before(events, a, b) ==
    \A j \in 1..Len(events) : events[j] = b => \E i \in 1..(j - 1) : events[i] = a

\* C4: in a run that reaches the PDF stage, an available conversion
\* (docx2pdf loaded and the docx file on disk) is attempted first; the
\* basic exporter runs exactly when the conversion is unavailable or
\* raised, never after a conversion that succeeded; outside the PDF stage
\* neither runs.
C4_ConversionFirst ==
    Generated =>
        /\ PdfStageReached =>
              /\ ConversionAvailable <=> Has(last.events, "convert")
              /\ ConversionAvailable => Before(last.events, "convert", "export_pdf_basic")
              /\ Has(last.events, "export_pdf_basic") <=>
                    (~ConversionAvailable \/ Has(last.events, "caught:convert"))
              /\ (Has(last.events, "convert") /\ ~Has(last.events, "caught:convert")) =>
                    (~Has(last.events, "export_pdf_basic")
                       /\ last.events[Len(last.events)] = "info:PDF saved")
        /\ ~PdfStageReached =>
              (~Has(last.events, "convert") /\ ~Has(last.events, "export_pdf_basic"))

\* the conversion was tried, raised, and the basic exporter took over
C4_Witness ==
    /\ Generated
    /\ last.events \in {<<"makedirs", "convert", "caught:convert", "export_pdf_basic", "info:PDF saved">>}

-----------------------------------------------------------------------------
(* Rendering: the two exporters applied to a collected model               *)

NotRun == [status |-> "not run", blocks |-> <<>>]

\* _export_docx on the collected model; its fields read as one result
RenderDocx ==
    \E writable \in BOOLEAN :
        LET res == _export_docx(_collect(form), include, BandImage(branding.header_path),
                                BandImage(branding.footer_path), writable)
        IN  /\ last' = [op |-> "render",
                        docx |-> [status |-> IF res.raised THEN "raised" ELSE "ok",
                                  blocks |-> res.blocks, writable |-> writable],
                        pdf |-> IF last.op = "render" THEN last.pdf ELSE NotRun]
            /\ UNCHANGED <<form, include, export_fmt, branding, libs, fs, current_file_path, dialogs>>

\* _export_pdf_basic on the collected model
RenderPdf ==
    \E writable \in BOOLEAN :
        LET res == _export_pdf_basic(_collect(form), include, BandImage(branding.header_path),
                                     BandImage(branding.footer_path),
                                     libs.SimpleDocTemplate, writable)
        IN  /\ last' = [op |-> "render",
                        docx |-> IF last.op = "render" THEN last.docx ELSE NotRun,
                        pdf |-> [status |-> res.status, blocks |-> res.blocks,
                                 writable |-> writable]]
            /\ UNCHANGED <<form, include, export_fmt, branding, libs, fs, current_file_path, dialogs>>

\* most result items a report holds in the model
MaxResults == 2

A == <<"a">>
B == <<"b">>

\* a form with every widget filled in: blank rows and blank lines between
\* the entries, text of more than one line
FullForm ==
    [f \in EntryFields |-> <<SP, "a">>] @@
    [f \in TextFields |-> <<"a", NL, "b">>] @@
    [f \in LineListFields |-> <<"a", NL, NL, SP, "b">>] @@
    [objectives |-> <<A, <<>>, <<SP, "b">> >>,
     _obj_container |-> <<1, 2, 3>>,
     manuf_order_steps |-> <<B, A>>,
     _mo_container |-> <<1, 2>>,
     trial_history |-> <<TrialRow(<<"1">>, A, B)>>,
     trial_layout |-> TRIAL_LAYOUTS[2],
     trial_docx_style |-> DOCX_TABLE_STYLES[4],
     results |-> <<>>,
     smart_goals |-> [EmptySmart EXCEPT !["S"] = A, !["T"] = <<"b", SP>>],
     email_correspondence |-> <<EmailEntry(<<"d">>, A, B)>>]

TitledForm == [FreshForm EXCEPT !.project_title = <<"T">>]

ResultChoices ==
    {ResultItem([title |-> <<"t">>, kind |-> "text", content |-> <<"a", NL, "b">>]),
     ResultItem([title |-> <<"g">>, kind |-> "table", content |-> <<"a", TAB, "b", NL, "c">>,
                 table_data |-> <<<<A, B>>, <<<<"c">>>>>>, table_style |-> "Light Grid"]),
     ResultItem([title |-> <<"r">>, kind |-> "table", content |-> <<"a", SP, SP, "b">>]),
     ResultItem([title |-> <<"j">>, kind |-> "image", images |-> <<"bad.png", "ok2.png">>,
                 caption |-> <<"c">>]),
     ResultItem([title |-> <<>>, kind |-> "image", images |-> <<"gone.png", "ok.png">>]),
     ResultItem([title |-> <<"k">>, kind |-> "image", image_path |-> "ok2.png"])}

RECURSIVE SeqsUpTo(_, _)
SeqsUpTo(S, n) ==
    IF n = 0 THEN {<<>>}
    ELSE SeqsUpTo(S, n - 1) \cup
         {Append(q, x) : q \in {p \in SeqsUpTo(S, n - 1) : Len(p) = n - 1}, x \in S}

RenderIncludes == {AllEnabled, AllBut("t_methods")}

InitRender ==
    /\ form \in {[f EXCEPT !.results = rs] :
                    f \in {TitledForm, FullForm}, rs \in SeqsUpTo(ResultChoices, MaxResults)}
    /\ include \in RenderIncludes
    /\ export_fmt = "both"
    /\ branding = DefaultBranding
    /\ libs = [Document |-> TRUE, SimpleDocTemplate |-> TRUE, docx2pdf_convert |-> FALSE]
    /\ fs = NoFiles
    /\ current_file_path = None
    /\ dialogs = <<>>
    /\ last = Idle

NextRender == RenderDocx \/ RenderPdf

SpecRender == InitRender /\ [][NextRender]_vars

-----------------------------------------------------------------------------
(* Claims about the two exporters                                          *)

DocxRan == last.op = "render" /\ last.docx.status # "not run"
PdfRan == last.op = "render" /\ last.pdf.status # "not run"

\* a path the claim calls nonexistent or unreadable
BadPath(pth) == ~(isfile(pth) /\ Decodable(pth))

ImageItems(r) == {i \in 1..Len(r.results) : r.results[i].kind = "image"}

HasBadImage(r) ==
    \E i \in ImageItems(r) :
        \E k \in 1..Len(ImagesOf(r.results[i])) : BadPath(ImagesOf(r.results[i])[k])

\* every image item keeps a path that can be shown
KeepsGoodImage(r) ==
    \A i \in ImageItems(r) :
        \E k \in 1..Len(ImagesOf(r.results[i])) : ~BadPath(ImagesOf(r.results[i])[k])

\* the model with the bad paths taken out of every image list
WithoutBadPaths(r) ==
    [r EXCEPT !.results =
        [i \in 1..Len(r.results) |->
            IF r.results[i].kind = "image"
            THEN [r.results[i] EXCEPT
                    !.images = SelectSeq(ImagesOf(r.results[i]), LAMBDA pth : ~BadPath(pth)),
                    !.image_path = None]
            ELSE r.results[i]]]

\* C5: for a model with an image item whose path list holds a nonexistent or
\* unreadable path (and a good one), each renderer that can write its file
\* completes, and its blocks are those of the model without the bad paths:
\* only the bad image is omitted, every other block is unchanged.
C5_BadImageOmittedOnly ==
    LET r == _collect(form)
    IN  HasBadImage(r) /\ KeepsGoodImage(r) =>
            /\ DocxRan /\ last.docx.writable =>
                   /\ last.docx.status = "ok"
                   /\ last.docx.blocks = DocxBody(WithoutBadPaths(r), include)
            /\ PdfRan /\ last.pdf.writable =>
                   /\ last.pdf.status = "ok"
                   /\ last.pdf.blocks = PdfStory(WithoutBadPaths(r), include)

\* the texts of the headings, list items and table cells of one block
BlockTexts(b) ==
    CASE b.kind \in {"heading", "li"} -> <<b.text>>
      [] b.kind = "list" -> b.items
      [] b.kind = "table" -> FlattenSeq(b.rows)
      [] OTHER -> <<>>

EmittedTexts(blocks) == FlattenSeq([i \in 1..Len(blocks) |-> BlockTexts(blocks[i])])

\* C6: when both renderers have written the document of one model, the
\* sequence of heading texts, list-item texts and table-cell texts of the
\* flow document equals that of the fixed-layout document.
C6_SameTextsInBothRenderers ==
    DocxRan /\ PdfRan /\ last.docx.status = "ok" /\ last.pdf.status = "ok" =>
        EmittedTexts(last.docx.blocks) = EmittedTexts(last.pdf.blocks)

\* the heading each include key stands for
KeyHeading ==
    [sec_general |-> "1. General Information",
     t_plain |-> "2.1. Plain Language Summary",
     t_objectives |-> "2.2. Objectives",
     t_methods |-> "2.3. Methods",
     t_rm |-> "2.3.1. Raw Materials",
     t_ins |-> "2.3.2. Instrument",
     t_proc |-> "2.3.3. Experimental Procedure",
     t_trial |-> "2.3.4. Trial History",
     t_results |-> "2.4. Results",
     t_conc |-> "2.5. Conclusion",
     t_misc |-> "2.6. Miscellaneous",
     t_refs |-> "2.7. References",
     sec_reg |-> "3. Regulatory",
     sec_scale |-> "4. Scale Up",
     sec_quality |-> "5. Quality",
     sec_commercial |-> "6. Commercial"]

IsHeadingOf(b, K) ==
    b.kind = "heading" /\ b.text # <<>> /\ b.text[Len(b.text)] = KeyHeading[K]

\* the blocks K owns: its heading and what follows up to the next heading of
\* the same or a higher rank
SectionOf(blocks, K) ==
    LET starts == {i \in 1..Len(blocks) : IsHeadingOf(blocks[i], K)}
    IN  IF starts = {} THEN {}
        ELSE LET i == CHOOSE x \in starts : TRUE
                 ends == {j \in (i + 1)..Len(blocks) :
                             blocks[j].kind = "heading" /\ blocks[j].level <= blocks[i].level}
                 j == IF ends = {} THEN Len(blocks) + 1
                      ELSE CHOOSE x \in ends : \A y \in ends : x <= y
             IN  i..(j - 1)

RECURSIVE Keep(_, _, _)
Keep(blocks, drop, i) ==
    IF i > Len(blocks) THEN <<>>
    ELSE (IF i \in drop THEN <<>> ELSE <<blocks[i]>>) \o Keep(blocks, drop, i + 1)

WithoutSection(blocks, K) == Keep(blocks, SectionOf(blocks, K), 1)

\* whether the bodies built with one key disabled are the two bodies given,
\* built under the state's include-set, without the section of the key
RemovesOwnBlocks(r, docx, pdf) ==
    \A K \in IncludeKeySet :
        /\ DocxBody(r, [include EXCEPT ![K] = FALSE]) = WithoutSection(docx, K)
        /\ PdfStory(r, [include EXCEPT ![K] = FALSE]) = WithoutSection(pdf, K)

\* C7: disabling include key K removes exactly the blocks K owns and leaves
\* every other block as it was, in both renderers, whatever the other keys.
C7_DisablingRemovesExactlyOwnBlocks ==
    RemovesOwnBlocks(_collect(form), DocxBody(_collect(form), include),
                     PdfStory(_collect(form), include))

C7_Witness ==
    LET r == _collect(form)
    IN  /\ DocxRan /\ PdfRan
        /\ include = AllBut("t_methods")
        /\ r.methods_instruments # <<>>
        /\ last.pdf.blocks = WithoutSection(PdfStory(r, AllEnabled), "t_methods")
        /\ Len(last.pdf.blocks) + 8 <= Len(PdfStory(r, AllEnabled))
        /\ last.docx.blocks = WithoutSection(DocxBody(r, AllEnabled), "t_methods")

\* whether a is b with some blocks left out: every block of a is met in b,
\* in the order of a
RECURSIVE IsSubsequence(_, _, _, _)
IsSubsequence(a, b, i, j) ==
    IF i > Len(a) THEN TRUE
    ELSE IF j > Len(b) THEN FALSE
    ELSE IF a[i] = b[j] THEN IsSubsequence(a, b, i + 1, j + 1)
    ELSE IsSubsequence(a, b, i, j + 1)

\* include-sets that enable a subset of the keys inc enables: inc itself, inc
\* with one more key disabled (a section, a subsection, a nested key), inc
\* with three keys disabled, and nothing enabled
SubIncludes(inc) ==
    {inc, [k \in IncludeKeySet |-> FALSE],
     [k \in IncludeKeySet |-> inc[k] /\ k \notin {"t_results", "t_proc", "sec_reg"}]}
    \cup {[inc EXCEPT ![K] = FALSE] :
             K \in {"sec_general", "t_objectives", "t_methods", "t_ins", "t_results",
                    "sec_scale"}}

\* whether the bodies built under the sub-include-sets of the state's are
\* subsequences of the two bodies given, built under the state's
SubsequencesOf(r, docx, pdf) ==
    \A sub \in SubIncludes(include) :
        /\ IsSubsequence(DocxBody(r, sub), docx, 1, 1)
        /\ IsSubsequence(PdfStory(r, sub), pdf, 1, 1)

\* C15: enablement changes inclusion only, never order: under an include-set
\* that enables a subset of the keys of another, each renderer builds a
\* subsequence of the blocks it builds under the other.
C15_SubsetGivesSubsequence ==
    SubsequencesOf(_collect(form), DocxBody(_collect(form), include),
                   PdfStory(_collect(form), include))

C15_Witness ==
    /\ DocxRan /\ PdfRan
    /\ include = AllBut("t_methods")
    /\ Len(form.results) = MaxResults
    /\ IsSubsequence(last.docx.blocks, DocxBody(_collect(form), AllEnabled), 1, 1)
    /\ Len(last.docx.blocks) < Len(DocxBody(_collect(form), AllEnabled))
    /\ IsSubsequence(last.pdf.blocks, PdfStory(_collect(form), AllEnabled), 1, 1)
    /\ Len(DocxBody(_collect(form), [k \in IncludeKeySet |-> FALSE])) < Len(last.docx.blocks)

-----------------------------------------------------------------------------
(* Persistence: _to_dict, _load_from_dict, _populate_from_model and the    *)
(* File menu.  A persisted dict is a function from its keys; a project     *)
(* file holds what json.dump wrote, which json.load reads back unchanged   *)
(* for dicts, lists, strings and booleans.                                 *)

\* d.get(k, default)
Get(d, k, default) == IF k \in DOMAIN d THEN d[k] ELSE default

EmptyDict == [k \in {} |-> None]

\* _to_dict: asdict of the collected model, the branding paths, the export
\* format and the include state
_to_dict(fm, inc, fmt, br) ==
    [report_model |-> _collect(fm),
     branding |-> br,
     export |-> [format |-> fmt],
     include |-> [k \in IncludeKeySet |-> inc[k]]]

\* results_in: an item without "images" gets [image_path] or []
results_in(rm) ==
    [i \in 1..Len(Get(rm, "results", <<>>)) |->
        IF "images" \notin DOMAIN rm.results[i]
        THEN rm.results[i] @@
             [images |-> IF PathGiven(Get(rm.results[i], "image_path", None))
                         THEN <<rm.results[i].image_path>> ELSE <<>>]
        ELSE rm.results[i]]

\* a step list that gives way to the legacy text only when its key is absent
mo_steps_KeyOnly(rm) ==
    IF "manuf_order_steps" \notin DOMAIN rm /\ Get(rm, "manuf_order_text", <<>>) # <<>>
    THEN safe_split_lines(rm.manuf_order_text)
    ELSE Get(rm, "manuf_order_steps", <<>>)

\* mo_steps: the stored list, or the lines of the legacy text when the list
\* is empty or absent and the text is not empty
mo_steps(rm) ==
    IF Get(rm, "manuf_order_steps", <<>>) = <<>> /\ Get(rm, "manuf_order_text", <<>>) # <<>>
    THEN safe_split_lines(rm.manuf_order_text)
    ELSE Get(rm, "manuf_order_steps", <<>>)

\* TrialRow(**th), EmailEntry(**e), ResultItem(**ri) raise TypeError for a
\* missing or an unexpected keyword
RowKeysOk(row, required, optional) ==
    required \subseteq DOMAIN row /\ DOMAIN row \subseteq required \cup optional

ConstructionRaises(rm) ==
    \/ \E i \in 1..Len(Get(rm, "trial_history", <<>>)) :
           ~RowKeysOk(rm.trial_history[i], {"number", "issue", "reasons"}, {})
    \/ \E i \in 1..Len(results_in(rm)) :
           ~RowKeysOk(results_in(rm)[i], {"title", "kind"}, DOMAIN ResultItemDefaults)
    \/ \E i \in 1..Len(Get(rm, "email_correspondence", <<>>)) :
           ~RowKeysOk(rm.email_correspondence[i], {"date", "customer", "correspondence"}, {})

\* r = ReportModel(...): every field from rm.get(field, default)
LoadedModel(rm) ==
    [f \in ReportModelFields |->
        CASE f = "manuf_order_steps" -> mo_steps(rm)
          [] f = "results" -> [i \in 1..Len(results_in(rm)) |-> ResultItem(results_in(rm)[i])]
          [] OTHER -> Get(rm, f, ReportModelDefaults[f])]

\* the rows of a container: the labels of its row frames and the values of
\* its list of variables
NoRows == [labels |-> <<>>, vars |-> <<>>]

\* _add_objective_row, _add_mo_row: a frame labelled len(vars) + 1 and a new
\* empty variable
AddRow(rows) ==
    [labels |-> Append(rows.labels, Len(rows.vars) + 1), vars |-> Append(rows.vars, <<>>)]

\* a Remove Last that destroys the frame and keeps the variable
RemoveLastRow_KeepsVar(rows) ==
    IF rows.labels = <<>> THEN rows
    ELSE [rows EXCEPT !.labels = SubSeq(@, 1, Len(@) - 1)]

\* _remove_last_objective, _remove_last_mo: nothing without a frame; else
\* the last frame is destroyed and the last variable, if any, popped
RemoveLastRow(rows) ==
    IF rows.labels = <<>> THEN rows
    ELSE [labels |-> SubSeq(rows.labels, 1, Len(rows.labels) - 1),
          vars |-> IF rows.vars # <<>> THEN SubSeq(rows.vars, 1, Len(rows.vars) - 1)
                   ELSE <<>>]

\* for obj in entries: self._add_objective_row(); self.obj_vars[-1].set(obj)
RECURSIVE FillRows(_, _)
FillRows(rows, entries) ==
    IF entries = <<>> THEN rows
    ELSE FillRows([AddRow(rows) EXCEPT !.vars[Len(rows.vars) + 1] = Head(entries)],
                  Tail(entries))

\* the container after _populate_from_model: the frames destroyed, the list
\* of variables emptied, a row per entry or one empty row
PopulatedRows(entries) ==
    IF entries # <<>> THEN FillRows(NoRows, entries) ELSE AddRow(NoRows)

\* a _populate_from_model that adds the objective rows to the rows on screen
_populate_from_model_KeepsRows(r, fm) ==
    [f \in EntryFields \cup TextFields |-> r[f]] @@
    [f \in LineListFields |-> Join(r[f], <<NL>>)] @@
    [objectives |-> fm.objectives \o (IF r.objectives # <<>> THEN r.objectives ELSE << <<>> >>),
     _obj_container |-> fm._obj_container \o PopulatedRows(r.objectives).labels,
     manuf_order_steps |->
         IF r.manuf_order_steps # <<>> THEN r.manuf_order_steps ELSE << <<>> >>,
     _mo_container |-> PopulatedRows(r.manuf_order_steps).labels,
     trial_history |-> r.trial_history,
     trial_layout |-> fm.trial_layout,
     trial_docx_style |-> fm.trial_docx_style,
     results |-> r.results,
     smart_goals |-> [k \in DOMAIN EmptySmart |-> Get(r.smart_goals, k, <<>>)],
     email_correspondence |-> r.email_correspondence]

\* _populate_from_model: every widget is cleared and filled from r; the row
\* lists get one row per entry, or one empty row; the layout and style
\* variables are not touched here
_populate_from_model(r, fm) ==
    [f \in EntryFields \cup TextFields |-> r[f]] @@
    [f \in LineListFields |-> Join(r[f], <<NL>>)] @@
    [objectives |-> PopulatedRows(r.objectives).vars,
     _obj_container |-> PopulatedRows(r.objectives).labels,
     manuf_order_steps |-> PopulatedRows(r.manuf_order_steps).vars,
     _mo_container |-> PopulatedRows(r.manuf_order_steps).labels,
     trial_history |-> r.trial_history,
     trial_layout |-> fm.trial_layout,
     trial_docx_style |-> fm.trial_docx_style,
     results |-> r.results,
     smart_goals |-> [k \in DOMAIN EmptySmart |-> Get(r.smart_goals, k, <<>>)],
     email_correspondence |-> r.email_correspondence]

\* a JSON value that is a list where the code expects an object
JsonList == [json_type |-> "list"]
IsDict(v) == "json_type" \notin DOMAIN v

\* r.smart_goals.get(k, "") raises AttributeError when smart_goals is not a
\* dict; ReportModel(...) takes the value as it is
PopulateRaises(r) == ~IsDict(r.smart_goals)

\* the widgets _populate_from_model fills after the SMART variables
AfterSmart ==
    {"smart_goals", "c_specs", "c_expected_volume", "c_packaging_req",
     "c_raw_material_prefs", "c_sample_needed", "c_opportunity_timeline",
     "target_application", "customer_feedback", "tds_development",
     "email_correspondence"}

\* the form a _populate_from_model leaves that raised at the SMART variables
PartlyPopulated(r, fm) ==
    [f \in DOMAIN fm |-> IF f \in AfterSmart THEN fm[f] ELSE _populate_from_model(r, fm)[f]]

\* _load_from_dict: the state after the call.  The model is constructed
\* first; an exception there is caught ("Load Failed") with nothing changed;
\* an exception of _populate_from_model is caught as well, with the widgets
\* filled before it left as they are
_load_from_dict(data, fm, inc, fmt, br) ==
    LET rm == Get(data, "report_model", EmptyDict)
        r == LoadedModel(rm)
        b == Get(data, "branding", EmptyDict)
        e == Get(data, "export", EmptyDict)
        i == Get(data, "include", EmptyDict)
    IN  IF ConstructionRaises(rm)
        THEN [failed |-> TRUE, form |-> fm, include |-> inc, export_fmt |-> fmt,
              branding |-> br, r |-> None]
        ELSE IF PopulateRaises(r)
        THEN [failed |-> TRUE, form |-> PartlyPopulated(r, fm), include |-> inc,
              export_fmt |-> fmt, branding |-> br, r |-> None]
        ELSE [failed |-> FALSE,
              form |-> [_populate_from_model(r, fm) EXCEPT
                           !.trial_layout = r.trial_layout,
                           !.trial_docx_style = r.trial_docx_style],
              include |-> [k \in IncludeKeySet |-> IF k \in DOMAIN i THEN i[k] ELSE inc[k]],
              export_fmt |-> Get(e, "format", fmt),
              branding |-> [k \in DOMAIN br |-> Get(b, k, br[k])],
              r |-> r]

-----------------------------------------------------------------------------
(* The File menu and the edits between a save and an open                  *)

\* the path the save dialog returns
SavedPath == "p.rdrproj"

\* the files the session may write: the older files on disk are read-only,
\* open(path, "w") raises for them
Writable(path) == path = SavedPath

\* the state both save handlers leave: the file written (or the error box)
SaveTo(path, writable) ==
    /\ fs' = IF writable
             THEN WriteFile(fs, path, _to_dict(form, include, export_fmt, branding))
             ELSE fs
    /\ last' = [op |-> "save", path |-> path, failed |-> ~writable]
    /\ UNCHANGED <<form, include, export_fmt, branding, libs, dialogs>>

\* File > Save As: current_file_path is set after the write succeeded
_file_save_as ==
    \E writable \in BOOLEAN :
        /\ SaveTo(SavedPath, writable)
        /\ current_file_path' = IF writable THEN SavedPath ELSE current_file_path

\* File > Save: Save As without a current file, else a write to it
_file_save ==
    \E writable \in BOOLEAN :
        IF current_file_path = None
        THEN /\ SaveTo(SavedPath, writable)
             /\ current_file_path' = IF writable THEN SavedPath ELSE current_file_path
        ELSE /\ writable => Writable(current_file_path)
             /\ SaveTo(current_file_path, writable)
             /\ UNCHANGED current_file_path

\* File > Open: _load_from_dict catches its own exception, so the path is
\* recorded and "Loaded" is shown after a failed load as well
_file_open ==
    \E path \in DOMAIN fs :
        LET res == _load_from_dict(fs[path], form, include, export_fmt, branding)
        IN  /\ form' = res.form
            /\ include' = res.include
            /\ export_fmt' = res.export_fmt
            /\ branding' = res.branding
            /\ current_file_path' = path
            /\ last' = [op |-> "open", path |-> path, failed |-> res.failed, r |-> res.r,
                        changed |-> res.form # form,
                        path_before |-> current_file_path,
                        boxes |-> (IF res.failed THEN <<"error:Load Failed">> ELSE <<>>)
                                  \o <<"info:Open">>]
            /\ UNCHANGED <<libs, fs, dialogs>>

\* the user clicks the check box of the plain-language summary
ToggleInclude ==
    /\ include' = [include EXCEPT !["t_plain"] = ~@]
    /\ last' = Idle
    /\ UNCHANGED <<form, export_fmt, branding, libs, fs, current_file_path, dialogs>>

\* most objective rows the user adds in the model
MaxRows == 2

ObjRows(fm) == [labels |-> fm._obj_container, vars |-> fm.objectives]
MoRows(fm) == [labels |-> fm._mo_container, vars |-> fm.manuf_order_steps]

\* the "Add Objective" button
_add_objective_row ==
    /\ Len(form.objectives) < MaxRows
    /\ form' = [form EXCEPT !._obj_container = AddRow(ObjRows(form)).labels,
                            !.objectives = AddRow(ObjRows(form)).vars]
    /\ last' = Idle
    /\ UNCHANGED <<include, export_fmt, branding, libs, fs, current_file_path, dialogs>>

\* "Remove Last" of the objectives
_remove_last_objective ==
    /\ form._obj_container # <<>>
    /\ form' = [form EXCEPT !._obj_container = RemoveLastRow(ObjRows(form)).labels,
                            !.objectives = RemoveLastRow(ObjRows(form)).vars]
    /\ last' = Idle
    /\ UNCHANGED <<include, export_fmt, branding, libs, fs, current_file_path, dialogs>>

\* the "Add Step" button
_add_mo_row ==
    /\ Len(form.manuf_order_steps) < MaxRows
    /\ form' = [form EXCEPT !._mo_container = AddRow(MoRows(form)).labels,
                            !.manuf_order_steps = AddRow(MoRows(form)).vars]
    /\ last' = Idle
    /\ UNCHANGED <<include, export_fmt, branding, libs, fs, current_file_path, dialogs>>

\* "Remove Last" of the manufacturing-order steps
_remove_last_mo ==
    /\ form._mo_container # <<>>
    /\ form' = [form EXCEPT !._mo_container = RemoveLastRow(MoRows(form)).labels,
                            !.manuf_order_steps = RemoveLastRow(MoRows(form)).vars]
    /\ last' = Idle
    /\ UNCHANGED <<include, export_fmt, branding, libs, fs, current_file_path, dialogs>>

LegacyText == <<"a", NL, SP, NL, SP, "b">>

\* project files found on disk: hand-written and older shapes
LegacyFiles ==
    [p \in {"empty.json", "legacy.json", "both_empty.json", "both.json", "bad.json",
            "halfway.json"} |->
        CASE p = "empty.json" -> EmptyDict
          [] p = "legacy.json" ->
                [report_model |->
                    [project_title |-> <<"T">>, manuf_order_text |-> LegacyText,
                     results |-> <<[title |-> <<"i">>, kind |-> "image",
                                    image_path |-> "ok.png"]>>],
                 include |-> [t_plain |-> FALSE]]
          [] p = "both_empty.json" ->
                [report_model |->
                    [manuf_order_steps |-> <<>>, manuf_order_text |-> LegacyText]]
          [] p = "both.json" ->
                [report_model |->
                    [manuf_order_steps |-> <<<<"c">>>>, manuf_order_text |-> LegacyText]]
          [] p = "halfway.json" ->
                [report_model |->
                    [project_title |-> <<"H">>, objectives |-> <<B>>,
                     smart_goals |-> JsonList, c_specs |-> A]]
          [] OTHER ->
                [report_model |-> [trial_history |-> <<[number |-> <<"1">>]>>]]]

\* the form the session starts from: filled in, a trial numbered 007
PersistForm ==
    [FullForm EXCEPT
        !.objectives = <<A, <<SP, "b">> >>,
        !._obj_container = <<1, 2>>,
        !.trial_history = <<TrialRow(<<"0", "0", "7">>, A, B)>>,
        !.results = <<ResultItem([title |-> <<"t">>, kind |-> "text", content |-> A]),
                      ResultItem([title |-> <<"i">>, kind |-> "image",
                                  images |-> <<"ok.png">>])>>]

InitPersist ==
    /\ form = PersistForm
    /\ include = AllEnabled
    /\ export_fmt = "both"
    /\ branding = DefaultBranding
    /\ libs = [Document |-> TRUE, SimpleDocTemplate |-> TRUE, docx2pdf_convert |-> FALSE]
    /\ fs = LegacyFiles
    /\ current_file_path = None
    /\ dialogs = <<>>
    /\ last = Idle

NextPersist ==
    \/ _file_save_as \/ _file_save \/ _file_open
    \/ _add_objective_row \/ _remove_last_objective \/ ToggleInclude

SpecPersist == InitPersist /\ [][NextPersist]_vars

-----------------------------------------------------------------------------
(* Claims about persistence                                                *)

\* the dict the last File > Open read, and its parts
OpenedData == fs[last.path]
OpenedModel == Get(OpenedData, "report_model", EmptyDict)
OpenedInclude == Get(OpenedData, "include", EmptyDict)

OrderedListFields ==
    LineListFields \cup RowListFields \cup {"trial_history", "results", "email_correspondence"}

\* C8: after opening a file that _to_dict wrote, the collected model has
\* every ordered list (objectives, trial history, result items, email
\* correspondence, and the other list fields) equal to the saved one: same
\* entries, same order, same content.
C8_RoundTripPreservesLists ==
    last.op = "open" /\ last.path = SavedPath =>
        /\ ~last.failed
        /\ \A f \in OrderedListFields :
               _collect(form)[f] = OpenedModel[f]

C8_Witness ==
    /\ last.op = "open" /\ last.path = SavedPath /\ last.changed
    /\ Len(OpenedModel.objectives) = 2
    /\ OpenedModel.trial_history = <<TrialRow(<<"7">>, A, B)>>
    /\ Len(OpenedModel.results) = 2
    /\ OpenedModel.email_correspondence # <<>>
    /\ _collect(form).objectives = OpenedModel.objectives
    /\ _collect(form).results = OpenedModel.results

\* whether the file the last File > Open read is well-formed: its rows are
\* complete and its SMART goals, if any, are an object
OpenedWellFormed ==
    ~ConstructionRaises(OpenedModel) /\ ~PopulateRaises(LoadedModel(OpenedModel))

\* C9: opening a well-formed file succeeds, every report_model field absent
\* from it ends at its ReportModel default (the step list unless the legacy
\* text stands in for it), and every include key absent from it is
\* enabled, whatever the form held before.
C9_AbsentKeysGetDefaults ==
    last.op = "open" /\ OpenedWellFormed =>
        /\ ~last.failed
        /\ \A f \in ReportModelFields \ DOMAIN OpenedModel :
               \/ f = "manuf_order_steps" /\ "manuf_order_text" \in DOMAIN OpenedModel
               \/ _collect(form)[f] = ReportModelDefaults[f]
        /\ \A k \in IncludeKeySet \ DOMAIN OpenedInclude : include[k]

\* the rows the manufacturing-order list shows for a list of steps
StepRows(steps) == IF steps = <<>> THEN << <<>> >> ELSE steps

\* C10 as stated: the legacy text is split into its trimmed non-empty lines
\* exactly when manuf_order_steps is absent and manuf_order_text is present;
\* when manuf_order_steps is present the loaded steps are the stored list.
C10_SplitExactlyWhenListAbsent ==
    last.op = "open" /\ ~last.failed =>
        last.r.manuf_order_steps =
            IF "manuf_order_steps" \in DOMAIN OpenedModel
            THEN OpenedModel.manuf_order_steps
            ELSE IF "manuf_order_text" \in DOMAIN OpenedModel
            THEN safe_split_lines(OpenedModel.manuf_order_text)
            ELSE <<>>

\* C10 amended: the legacy text is split into its trimmed non-empty lines
\* exactly when manuf_order_steps is absent or empty and manuf_order_text
\* is present and not empty; otherwise the loaded steps are the stored list
\* (none when it is absent).  The form shows one row per loaded step.
C10_SplitWhenListAbsentOrEmpty ==
    last.op = "open" /\ ~last.failed =>
        LET stored == Get(OpenedModel, "manuf_order_steps", <<>>)
            legacy == Get(OpenedModel, "manuf_order_text", <<>>)
        IN  /\ stored = <<>> /\ legacy # <<>> =>
                   last.r.manuf_order_steps = safe_split_lines(legacy)
            /\ stored # <<>> \/ legacy = <<>> =>
                   last.r.manuf_order_steps = stored
            /\ form.manuf_order_steps = StepRows(last.r.manuf_order_steps)

C10_Witness ==
    /\ last.op = "open" /\ ~last.failed
    /\ "manuf_order_steps" \in DOMAIN OpenedModel
    /\ OpenedModel.manuf_order_steps = <<>>
    /\ last.r.manuf_order_steps = <<A, B>>
    /\ form.manuf_order_steps = <<A, B>>

-----------------------------------------------------------------------------
(* Table-text inference: a table item whose grid was never stored (it came *)
(* from a project file) is parsed from its raw text when it is exported    *)

\* most lines of a raw table text in the model
MaxLines == 2

\* the lines a raw table text is made of
LineChoices ==
    {<<>>, <<SP>>, <<"a", SP, "b">>, <<"a", SP, SP, "b">>,
     <<SP, "a", SP, ",", SP, "b", SP>>, <<"a", TAB, "b">>, <<DQ, "a", ",", "b", DQ>>}

ParseInputs == {Join(ls, <<NL>>) : ls \in SeqsUpTo(LineChoices, MaxLines)}

RawTableItem(text) == ResultItem([title |-> <<"g">>, kind |-> "table", content |-> text])

InitParse ==
    /\ form \in {[TitledForm EXCEPT !.results = <<RawTableItem(t)>>] : t \in ParseInputs}
    /\ include = AllEnabled
    /\ export_fmt = "both"
    /\ branding = DefaultBranding
    /\ libs = [Document |-> TRUE, SimpleDocTemplate |-> TRUE, docx2pdf_convert |-> FALSE]
    /\ fs = NoFiles
    /\ current_file_path = None
    /\ dialogs = <<>>
    /\ last = Idle

NextParse == RenderDocx \/ RenderPdf

SpecParse == InitParse /\ [][NextParse]_vars

-----------------------------------------------------------------------------
(* Claims about parse_table_text                                           *)

\* the raw text of the table item, and what is left of it without the
\* newlines at its ends
RawText == form.results[1].content
RawStripped == StripNL(RawText)
HasTab(txt) == \E i \in 1..Len(txt) : txt[i] = TAB

\* the characters a text is made of
Alphabet == {"a", "b", "c", NL, SP, TAB, ",", ";", DQ, SQ}

\* a grid: rows of cells, each cell a text
IsGrid(g) ==
    \A i \in 1..Len(g) : \A j \in 1..Len(g[i]) :
        \A k \in 1..Len(g[i][j]) : g[i][j][k] \in Alphabet

\* the tables of the exported documents
TablesOf(blocks) == SelectSeq(blocks, LAMBDA b : b.kind = "table")

\* the grid of the strategies that follow the try block
Fallback(txt) == IF HasTab(txt) THEN TabRows(txt) ELSE WhitespaceRows(txt)

\* whether the grid of a text whose sniffing raised is the fallback's
GridAfterRaise(grid, txt, sniffed) == sniffed.raised => grid = Fallback(txt)

\* C11: parse_table_text returns a grid for every text, whatever the
\* sniffing did: when it raised, the exception is swallowed and the tab
\* strategy (a tab in the text) or the whitespace strategy gives the grid.
C11_ParseNeverRaises ==
    /\ IsGrid(parse_table_text(RawText))
    /\ RawStripped # <<>> =>
           GridAfterRaise(parse_table_text(RawText), RawStripped, SniffedRows(RawStripped))

C11_Witness ==
    /\ DocxRan /\ last.docx.status = "ok"
    /\ RawText = <<"a", SP, "b", NL, "a", SP, SP, "b">>
    /\ SniffedRows(RawStripped).raised
    /\ TablesOf(last.docx.blocks)[2].rows = <<<<<<"a", SP, "b">>, <<>>>>, <<<<"a">>, <<"b">>>>>>

\* C12: parse_table_text returns the empty sequence for every text that is
\* empty or holds newlines only.
C12_EmptyInputEmptyGrid ==
    (\A i \in 1..Len(RawText) : RawText[i] = NL) => parse_table_text(RawText) = <<>>

C12_Witness ==
    /\ DocxRan /\ last.docx.status = "ok"
    /\ RawText = <<NL>>
    /\ Len(TablesOf(last.docx.blocks)) = 1

\* a cell without whitespace at its ends
Trimmed(cell) ==
    cell = <<>> \/ (cell[1] \notin Whitespace /\ cell[Len(cell)] \notin Whitespace)

\* the sniffed rows hold a row of more than one column
MultiColumn(sniffed) ==
    ~sniffed.raised /\ \E i \in 1..Len(sniffed.rows) : Len(sniffed.rows[i]) > 1

\* whether the grid is the sniffed rows, cell by cell trimmed, when these
\* hold a row of more than one column, and the fallback's grid otherwise
SniffedOrFallback(grid, txt, sniffed) ==
    IF MultiColumn(sniffed)
    THEN /\ Len(grid) = Len(sniffed.rows)
         /\ \A i \in 1..Len(grid) :
                /\ Len(grid[i]) = Len(sniffed.rows[i])
                /\ \A j \in 1..Len(grid[i]) :
                       Trimmed(grid[i][j]) /\ grid[i][j] = Strip(sniffed.rows[i][j])
    ELSE grid = Fallback(txt)

\* C16: the sniffed parse is returned only if one of its rows has more than
\* one column, and then every cell is the sniffed cell trimmed; a sniff that
\* succeeded with single-column rows only is discarded like one that raised,
\* and the tab or the whitespace strategy gives the grid.
C16_SniffedParseNeedsTwoColumns ==
    RawStripped # <<>> =>
        SniffedOrFallback(parse_table_text(RawText), RawStripped, SniffedRows(RawStripped))

\* a quoted cell holding a comma: sniffed as one column, discarded, and
\* parsed by the whitespace strategy, which keeps the quotes
C16_Witness ==
    /\ PdfRan
    /\ RawText = <<DQ, "a", ",", "b", DQ>>
    /\ SniffedRows(RawStripped) = [raised |-> FALSE, rows |-> <<<<<<"a", ",", "b">>>>>>]
    /\ parse_table_text(RawText) = <<<<RawText>>>>
    /\ \E i \in 1..Len(last.pdf.blocks) :
           last.pdf.blocks[i].kind = "table" /\ last.pdf.blocks[i].rows = <<<<RawText>>>>

\* the lines of the stripped raw text
RawLines == splitlines(RawStripped)

\* whether a line holds a run of two or more whitespace characters
HasWideRun(ln) ==
    \E i \in 1..(Len(ln) - 1) : ln[i] \in Whitespace /\ ln[i + 1] \in Whitespace

\* whether the cells are what is left of the line when runs of two or more
\* whitespace characters are cut out: no cell is empty or holds such a run
\* or has whitespace at an end, and the cells in order, without their
\* whitespace, spell the line without its whitespace
NoSpace(s) == SelectSeq(s, LAMBDA c : c \notin Whitespace)
SplitOnWideRuns(cells, ln) ==
    /\ \A j \in 1..Len(cells) :
           cells[j] # <<>> /\ Trimmed(cells[j]) /\ ~HasWideRun(cells[j])
    /\ NoSpace(FlattenSeq(cells)) = NoSpace(ln)
    /\ Len(cells) = 1 + Cardinality({i \in 2..Len(Strip(ln)) :
                                        /\ Strip(ln)[i] \notin Whitespace
                                        /\ Strip(ln)[i - 1] \in Whitespace
                                        /\ Strip(ln)[i - 2] \in Whitespace})

\* whether the grid has one row per line, split on the wide runs of the
\* line or holding the trimmed line; one cell per row for a text without
\* delimiters and without wide runs
SplitPerLine(grid, txt, lines) ==
    /\ Len(grid) = Len(lines)
    /\ \A i \in 1..Len(lines) :
           IF HasWideRun(Strip(lines[i]))
           THEN SplitOnWideRuns(grid[i], lines[i])
           ELSE grid[i] = <<Strip(lines[i])>>
    /\ (\A k \in 1..Len(txt) : txt[k] \notin Delimiters)
         /\ (\A i \in 1..Len(lines) : ~HasWideRun(lines[i]))
       => \A i \in 1..Len(lines) : Len(grid[i]) = 1

\* C17: when the sniffed parse is not returned and the text holds no tab,
\* each line is split on runs of two or more whitespace characters, and a
\* line without such a run becomes a single-cell row holding the trimmed
\* line; a text without delimiters and without such runs gives one
\* single-cell row per line.
C17_WhitespaceFallback ==
    RawStripped # <<>> /\ ~MultiColumn(SniffedRows(RawStripped)) /\ ~HasTab(RawStripped) =>
        SplitPerLine(parse_table_text(RawText), RawStripped, RawLines)

\* two lines without delimiter, the second with a run of two spaces
C17_Witness ==
    /\ DocxRan /\ last.docx.status = "ok"
    /\ RawText = <<"a", SP, "b", NL, "a", SP, SP, "b">>
    /\ ~HasTab(RawStripped) /\ ~MultiColumn(SniffedRows(RawStripped))
    /\ parse_table_text(RawText) = <<<<<<"a", SP, "b">>>>, <<<<"a">>, <<"b">>>>>>

\* the delimiter the grid of a text was detected with: the sniffed one when
\* the sniffed parse is returned, a tab under the tab strategy, a run of two
\* spaces under the whitespace strategy
DelimiterUsed(text) ==
    LET txt == StripNL(text)
    IN  IF SniffAccepted(SniffedRows(txt)) THEN <<sniff(txt, Delimiters).delimiter>>
        ELSE IF HasTab(txt) THEN <<TAB>>
        ELSE <<SP, SP>>

\* the text of a grid: cells joined with the delimiter, rows with newlines
Rejoin(grid, delim) ==
    Join([i \in 1..Len(grid) |-> Join(grid[i], delim)], <<NL>>)

SameAfterRejoin(grid, delim) == parse_table_text(Rejoin(grid, delim)) = grid

\* C13: parsing is idempotent under re-joining: the grid of a text, joined
\* again with the delimiter it was detected with and parsed again, is the
\* same grid.
C13_ReparseGivesSameGrid ==
    RawStripped # <<>> =>
        SameAfterRejoin(parse_table_text(RawText), DelimiterUsed(RawText))

-----------------------------------------------------------------------------
(* The results list and the "Result Item" windows                          *)

\* edit_index of a window opened by "Add Result": None
NoIndex == -1

\* most "Result Item" windows open at once in the model
MaxDialogs == 1

\* the copy mgr.save_edited_to_temp makes of a file in the image cache
CacheCopy(path) ==
    CASE path \in {"ok.png", "cache/ok.png"} -> "cache/ok.png"
      [] path \in {"ok2.png", "cache/ok2.png"} -> "cache/ok2.png"
      [] OTHER -> "cache/bad.png"

\* mgr.save_edited_to_temp(): a file that cannot be copied is skipped
save_edited_to_temp(files) ==
    LET copied == SelectSeq(files, isfile)
    IN  [i \in 1..Len(copied) |-> CacheCopy(copied[i])]

\* "\n".join("\t".join(r) for r in existing.table_data)
TabJoined(table_data) ==
    Join([i \in 1..Len(table_data) |-> Join(table_data[i], <<TAB>>)], <<NL>>)

\* _result_dialog(existing, edit_index): the two arguments, which save()
\* closes over, and the widgets of the new window; existing is <<>> for
\* None, else the one item
WidgetsOf(existing, edit_index) ==
    IF existing = <<>>
    THEN [edit_index |-> edit_index, v_title |-> <<>>, v_kind |-> "text",
          txt_text |-> <<>>, txt_table |-> <<>>, v_tbl_style |-> "Table Grid",
          files |-> <<>>, v_caption |-> <<>>]
    ELSE LET it == existing[1]
         IN  [edit_index |-> edit_index, v_title |-> it.title, v_kind |-> it.kind,
              txt_text |-> IF it.kind = "text" THEN it.content ELSE <<>>,
              txt_table |-> IF it.kind # "table" THEN <<>>
                            ELSE IF it.table_data # <<>> THEN TabJoined(it.table_data)
                            ELSE it.content,
              v_tbl_style |-> it.table_style,
              files |-> IF it.kind = "image" THEN it.images ELSE <<>>,
              v_caption |-> IF it.kind = "image" THEN it.caption ELSE <<>>]

_result_dialog(existing, edit_index) ==
    WidgetsOf(existing, edit_index) @@ [existing |-> existing]

\* the item save() builds from the widgets of a window
SavedItem(d) ==
    LET title == IF Strip(d.v_title) = <<>> THEN <<"Untitled">> ELSE Strip(d.v_title)
    IN  IF d.v_kind = "text"
        THEN ResultItem([title |-> title, kind |-> "text",
                         content |-> Strip(TextGet(d.txt_text))])
        ELSE IF d.v_kind = "table"
        THEN ResultItem([title |-> title, kind |-> "table",
                         content |-> Strip(TextGet(d.txt_table)),
                         table_data |-> parse_table_text(Strip(TextGet(d.txt_table))),
                         table_style |-> d.v_tbl_style])
        ELSE ResultItem([title |-> title, kind |-> "image",
                         images |-> IF d.files # <<>> THEN save_edited_to_temp(d.files)
                                    ELSE <<>>,
                         caption |-> Strip(d.v_caption)])

RemoveAt(q, i) == SubSeq(q, 1, i - 1) \o SubSeq(q, i + 1, Len(q))

\* the "Add Result" button
_add_result_dialog ==
    /\ Len(dialogs) < MaxDialogs
    /\ dialogs' = Append(dialogs, _result_dialog(<<>>, NoIndex))
    /\ last' = [op |-> "add_dialog"]
    /\ UNCHANGED <<form, include, export_fmt, branding, libs, fs, current_file_path>>

\* the "Edit" button of a row of the results list
_edit_result_dialog ==
    \E idx \in 0..(Len(form.results) - 1) :
        /\ Len(dialogs) < MaxDialogs
        /\ dialogs' = Append(dialogs, _result_dialog(<<form.results[idx + 1]>>, idx))
        /\ last' = [op |-> "edit_dialog", idx |-> idx]
        /\ UNCHANGED <<form, include, export_fmt, branding, libs, fs, current_file_path>>

\* the "Remove" button of a row of the results list
_remove_result ==
    \E idx \in 0..(Len(form.results) - 1) :
        /\ form' = [form EXCEPT !.results = RemoveAt(@, idx + 1)]
        /\ last' = [op |-> "remove", idx |-> idx]
        /\ UNCHANGED <<include, export_fmt, branding, libs, fs, current_file_path, dialogs>>

\* what the user fills a window with: every widget of the three frames
DialogFillings ==
    {[v_title |-> <<SP, "t">>, v_kind |-> "text", txt_text |-> <<"a", SP>>,
      txt_table |-> <<"a", SP, SP, "b", NL, "c">>, v_tbl_style |-> "Light Grid",
      files |-> <<"gone.png", "ok.png">>, v_caption |-> <<"c", SP>>],
     [v_title |-> <<>>, v_kind |-> "table", txt_text |-> <<"a", SP>>,
      txt_table |-> <<"a", SP, SP, "b", NL, "c">>, v_tbl_style |-> "Light Grid",
      files |-> <<"gone.png", "ok.png">>, v_caption |-> <<"c", SP>>],
     [v_title |-> <<"i">>, v_kind |-> "image", txt_text |-> <<"a", SP>>,
      txt_table |-> <<"a", SP, SP, "b", NL, "c">>, v_tbl_style |-> "Light Grid",
      files |-> <<"gone.png", "ok.png">>, v_caption |-> <<"c", SP>>]}

\* the user types into the widgets of an open window
TypeInDialog ==
    \E k \in 1..Len(dialogs), filling \in DialogFillings :
        /\ dialogs' = [dialogs EXCEPT ![k] =
                          filling @@ [edit_index |-> @.edit_index, existing |-> @.existing]]
        /\ last' = [op |-> "type"]
        /\ UNCHANGED <<form, include, export_fmt, branding, libs, fs, current_file_path>>

\* the "Save" button of a window: the item is appended or stored at
\* edit_index; an edit_index past the end of the list raises IndexError
\* before the list is rebuilt and the window destroyed
save ==
    \E k \in 1..Len(dialogs) :
        LET d == dialogs[k]
            item == SavedItem(d)
            raises == d.edit_index # NoIndex /\ d.edit_index >= Len(form.results)
        IN  /\ d.edit_index = NoIndex => Len(form.results) < MaxResults
            /\ form' = [form EXCEPT !.results =
                           IF d.edit_index = NoIndex THEN Append(@, item)
                           ELSE IF raises THEN @
                           ELSE [@ EXCEPT ![d.edit_index + 1] = item]]
            /\ dialogs' = IF raises THEN dialogs ELSE RemoveAt(dialogs, k)
            /\ last' = [op |-> "save", edit_index |-> d.edit_index, item |-> item,
                        raised |-> raises, existing |-> d.existing,
                        replaced |-> IF d.edit_index = NoIndex \/ raises THEN <<>>
                                     ELSE <<form.results[d.edit_index + 1]>>,
                        untouched |-> d = _result_dialog(d.existing, d.edit_index)]
            /\ UNCHANGED <<include, export_fmt, branding, libs, fs, current_file_path>>

\* the "Cancel" button of a window
cancel ==
    \E k \in 1..Len(dialogs) :
        /\ dialogs' = RemoveAt(dialogs, k)
        /\ last' = [op |-> "cancel"]
        /\ UNCHANGED <<form, include, export_fmt, branding, libs, fs, current_file_path>>

\* project files on disk: one of an older version, one written by hand
ResultFiles ==
    [p \in {"legacy.json", "mixed.json"} |->
        IF p = "legacy.json"
        THEN [report_model |->
                 [results |-> <<[title |-> <<"k">>, kind |-> "image",
                                 image_path |-> "ok2.png"]>>]]
        ELSE [report_model |->
                 [results |-> <<[title |-> <<"m">>, kind |-> "text", content |-> A,
                                 caption |-> B]>>]]]

InitDialog ==
    /\ form = TitledForm
    /\ include = AllEnabled
    /\ export_fmt = "both"
    /\ branding = DefaultBranding
    /\ libs = [Document |-> TRUE, SimpleDocTemplate |-> TRUE, docx2pdf_convert |-> FALSE]
    /\ fs = ResultFiles
    /\ current_file_path = None
    /\ dialogs = <<>>
    /\ last = Idle

NextDialog ==
    \/ _add_result_dialog \/ _edit_result_dialog \/ _remove_result
    \/ TypeInDialog \/ save \/ cancel \/ _file_open

SpecDialog == InitDialog /\ [][NextDialog]_vars

-----------------------------------------------------------------------------
(* Claims about the results list                                           *)

\* the fields of each content shape
ShapeFields(kind) ==
    CASE kind = "text" -> {"content"}
      [] kind = "table" -> {"content", "table_data", "table_style"}
      [] OTHER -> {"image_path", "images", "caption"}

\* whether the fields outside the shape of the item's kind are at their defaults
OneShape(it) ==
    /\ it.kind \in {"text", "table", "image"}
    /\ \A f \in DOMAIN ResultItemDefaults \ ShapeFields(it.kind) :
           it[f] = ResultItemDefaults[f]

\* C14: after any sequence of add, edit and remove operations of the result
\* windows and of project loads, every item of the results list has only the
\* content shape of its kind populated: the fields of the other shapes are at
\* their empty defaults.
C14_OneShapePerItem ==
    \A i \in 1..Len(form.results) : OneShape(form.results[i])

-----------------------------------------------------------------------------
(* Claims about the rendering of result items and lists                    *)

\* the table items of the form whose rows differ in length
IsRagged(data) == \E i, k \in 1..Len(data) : Len(data[i]) # Len(data[k])
RaggedTables ==
    {i \in 1..Len(form.results) :
        form.results[i].kind = "table" /\ IsRagged(TableDataOf(form.results[i]))}

\* whether grid is data with every row filled up to the longest with ""
IsPaddedGrid(grid, data) ==
    /\ Len(grid) = Len(data)
    /\ \A i \in 1..Len(data) :
           /\ \A k \in 1..Len(data) : Len(grid[i]) >= Len(data[k])
           /\ \E k \in 1..Len(data) : Len(grid[i]) = Len(data[k])
           /\ \A j \in 1..Len(grid[i]) :
                  grid[i][j] = IF j <= Len(data[i]) THEN data[i][j] ELSE <<>>

HasPaddedGrid(blocks, data) ==
    \E n \in 1..Len(blocks) : blocks[n].kind = "table" /\ IsPaddedGrid(blocks[n].rows, data)

HeadingOver(blocks, n) ==
    LET before == {m \in 1..(n - 1) : blocks[m].kind = "heading"}
    IN  IF before = {} THEN <<>>
        ELSE blocks[CHOOSE m \in before : \A x \in before : x <= m].text

\* the headings of the two list fields that are numbered
NumberedHeadings == {Lit("2.2. Objectives"), Lit("4.1. Manufacturing Order")}

\* every list of the blocks is ordered exactly under the numbered headings
ListsOrderedAsSpecified(blocks) ==
    \A n \in 1..Len(blocks) :
        blocks[n].kind \in {"li", "list"} =>
            (blocks[n].ordered <=> HeadingOver(blocks, n) \in NumberedHeadings)

\* C19: in both renderers the objectives and the manufacturing-order steps
\* are emitted as ordered lists and every other list field as an unordered
\* list.
C19_ObjectivesAndStepsOrdered ==
    /\ DocxRan /\ last.docx.status = "ok" => ListsOrderedAsSpecified(last.docx.blocks)
    /\ PdfRan /\ last.pdf.status = "ok" => ListsOrderedAsSpecified(last.pdf.blocks)

\* the places of the level-3 headings that carry the number 2.4.N
NumberedAt(blocks, N) ==
    {n \in 1..Len(blocks) :
        /\ blocks[n].kind = "heading" /\ blocks[n].level = 3
        /\ Len(blocks[n].text) >= 2
        /\ blocks[n].text[1] = "2.4." /\ blocks[n].text[2] = Numeral(N)}

\* every stored item has its numbered heading, and the headings follow the
\* stored order
ItemsNumbered(blocks) ==
    /\ \A N \in 1..Len(form.results) : NumberedAt(blocks, N) # {}
    /\ \A N, M \in 1..Len(form.results) :
           N < M => \A n \in NumberedAt(blocks, N), m \in NumberedAt(blocks, M) : n < m

\* C20: with results enabled, the N-th stored result item, whatever its
\* kind, is rendered under a level-3 heading that carries the number 2.4.N,
\* in the stored order, in both renderers.
C20_EveryItemUnderNumberedHeading ==
    include["t_results"] =>
        /\ DocxRan /\ last.docx.status = "ok" => ItemsNumbered(last.docx.blocks)
        /\ PdfRan /\ last.pdf.status = "ok" => ItemsNumbered(last.pdf.blocks)

-----------------------------------------------------------------------------
(* List fields: a form whose lists hold blank entries, project files whose *)
(* lists hold blank entries, the row buttons and the two exporters         *)

\* project files with empty and whitespace-only entries in their lists
ListFiles ==
    [p \in {"lists.json", "blank.json"} |->
        IF p = "lists.json"
        THEN [report_model |->
                 [project_title |-> <<"T">>,
                  objectives |-> <<A, <<>>, <<SP>>, B>>,
                  methods_raw_materials |-> << <<>>, A>>,
                  methods_procedure |-> <<B, <<SP, SP>>, A>>,
                  conclusion |-> <<A, <<SP>>, B>>,
                  references |-> << <<>> >>,
                  manuf_order_steps |-> << <<>>, B, <<SP, "a">> >>]]
        ELSE [report_model |->
                 [project_title |-> <<"T">>,
                  objectives |-> << <<>>, <<SP>> >>,
                  conclusion |-> << <<SP>> >>,
                  manuf_order_steps |-> << <<SP>> >>]]]

\* a form whose lists hold nothing but blank entries
BlankListsForm ==
    [f \in LineListFields |-> <<SP, NL, NL, SP>>] @@
    [objectives |-> << <<>>, <<SP>> >>, _obj_container |-> <<1, 2>>,
     manuf_order_steps |-> << <<>> >>, _mo_container |-> <<1>>] @@
    FullForm

InitLists ==
    /\ form \in {FullForm, BlankListsForm}
    /\ include \in RenderIncludes
    /\ export_fmt = "both"
    /\ branding = DefaultBranding
    /\ libs = [Document |-> TRUE, SimpleDocTemplate |-> TRUE, docx2pdf_convert |-> FALSE]
    /\ fs = ListFiles
    /\ current_file_path = None
    /\ dialogs = <<>>
    /\ last = Idle

NextLists ==
    \/ _file_open \/ _add_objective_row \/ _remove_last_objective
    \/ _add_mo_row \/ _remove_last_mo
    \/ RenderDocx \/ RenderPdf

SpecLists == InitLists /\ [][NextLists]_vars

-----------------------------------------------------------------------------
(* Claims about the list fields                                            *)

ListFields == LineListFields \cup RowListFields

\* the heading each list field is rendered under
ListHeading ==
    [objectives |-> "2.2. Objectives",
     methods_raw_materials |-> "2.3.1. Raw Materials",
     methods_instruments |-> "2.3.2. Instrument",
     methods_procedure |-> "2.3.3. Experimental Procedure",
     conclusion |-> "2.5. Conclusion",
     references |-> "2.7. References",
     manuf_order_steps |-> "4.1. Manufacturing Order"]

\* the entries the form holds for a list field: its rows, or the lines of
\* its text
EntriesOf(fm, f) == IF f \in RowListFields THEN fm[f] ELSE splitlines(fm[f])

NotBlank(e) == \E i \in 1..Len(e) : e[i] \notin Whitespace

\* the entries that are not blank, in order, without the whitespace around
NonBlankEntries(entries) ==
    LET kept == SelectSeq(entries, NotBlank)
    IN  [i \in 1..Len(kept) |-> Strip(kept[i])]

\* the list items of a block
ItemsOfBlock(b) ==
    IF b.kind = "li" THEN <<b.text>> ELSE IF b.kind = "list" THEN b.items ELSE <<>>

\* the list items that stand between the heading at place h and the next
\* heading
ItemsAfter(blocks, h) ==
    LET later == {j \in (h + 1)..Len(blocks) : blocks[j].kind = "heading"}
        stop == IF later = {} THEN Len(blocks) + 1
                ELSE CHOOSE j \in later : \A x \in later : j <= x
    IN  FlattenSeq([n \in 1..(stop - h - 1) |-> ItemsOfBlock(blocks[h + n])])

HeadingPlaces(blocks, f) ==
    {h \in 1..Len(blocks) : blocks[h].kind = "heading" /\ blocks[h].text = Lit(ListHeading[f])}

\* under the heading of every list field the blocks show, the list items are
\* the non-blank entries of the lists given, in order
ListItemsAre(blocks, lists) ==
    \A f \in ListFields :
        \A h \in HeadingPlaces(blocks, f) :
            ItemsAfter(blocks, h) = NonBlankEntries(lists[f])

FormLists == [f \in ListFields |-> EntriesOf(form, f)]

\* the lists of the file the last File > Open read, for the fields it holds
OpenedLists ==
    [f \in ListFields |-> Get(OpenedModel, f, <<>>)]

-----------------------------------------------------------------------------
(* Claims about the "Result Item" window                                   *)

\* a Save that stored a table item over the table item its window was
\* opened for, with no widget changed since the window opened
UntouchedTableSave ==
    /\ last.op = "save" /\ ~last.raised /\ last.untouched
    /\ last.existing # <<>> /\ last.replaced = last.existing
    /\ last.existing[1].kind = "table"

\* C22: a table item opened for edit and saved with nothing changed keeps
\* its raw text and its table data.
C22_UnchangedSaveKeepsRawText ==
    UntouchedTableSave =>
        /\ last.item.content = last.existing[1].content
        /\ last.item.table_data = last.existing[1].table_data

\* C27: the Save of a window opened by "Edit" stores its item over the item
\* the window was opened for and does not raise, whatever was removed or
\* added in the main window while the window was open.
C27_SaveReplacesItsOwnItem ==
    last.op = "save" /\ last.edit_index # NoIndex =>
        /\ ~last.raised
        /\ last.replaced = last.existing

-----------------------------------------------------------------------------
(* Claims about the cached table data                                      *)

\* the grids of the tables that stand in the results section, in order
ResultTables(blocks) ==
    LET places == SelectSeq([i \in 1..Len(blocks) |-> i],
                            LAMBDA i : /\ i \in SectionOf(blocks, "t_results")
                                       /\ blocks[i].kind = "table")
    IN  [n \in 1..Len(places) |-> blocks[places[n]].rows]

\* the table data the items hold, in order; an item that holds none has no
\* table
CachedTables(results) ==
    LET held == SelectSeq(results, LAMBDA it : it.kind = "table" /\ it.table_data # <<>>)
    IN  [n \in 1..Len(held) |-> held[n].table_data]

\* C23: the renderers show the table data the items hold and run no
\* inference during a render: the tables of the results section are the
\* grids of the stored table data, for every table item.
C23_RenderersUseStoredTableData ==
    include["t_results"] =>
        /\ DocxRan /\ last.docx.status = "ok" =>
               ResultTables(last.docx.blocks) =
                   [n \in 1..Len(CachedTables(form.results)) |->
                       DocxGrid(CachedTables(form.results)[n])]
        /\ PdfRan /\ last.pdf.status = "ok" =>
               ResultTables(last.pdf.blocks) =
                   [n \in 1..Len(CachedTables(form.results)) |->
                       PdfGrid(CachedTables(form.results)[n])]

-----------------------------------------------------------------------------
(* Claims about the page layout of the fixed-layout document               *)

\* SimpleDocTemplate(pagesize=A4, leftMargin=0.75*inch, rightMargin=0.75*inch):
\* the page width between the margins (0.75 inch is 3 * inch / 4)
UsableWidth == A4[1] - 2 * ((3 * inch) \div 4)

RECURSIVE SumOf(_)
SumOf(ws) == IF ws = <<>> THEN 0 ELSE Head(ws) + SumOf(Tail(ws))

\* the result tables of the blocks
ResultTableBlocks(blocks) ==
    {blocks[i] : i \in {k \in SectionOf(blocks, "t_results") : blocks[k].kind = "table"}}

\* C24: every result table of the fixed-layout document has one width per
\* column, each the usable page width (A4 width less the two 0.75-inch
\* margins) divided by the column count, so the widths sum to the usable
\* width and the table does not exceed it.
C24_ColumnsShareUsableWidth ==
    PdfRan /\ last.pdf.status = "ok" =>
        \A t \in ResultTableBlocks(last.pdf.blocks) :
            /\ Len(t.colWidths) = Len(t.rows[1])
            /\ \A j \in 1..Len(t.colWidths) :
                   t.colWidths[j] * Len(t.colWidths) = UsableWidth
            /\ SumOf(t.colWidths) <= UsableWidth

-----------------------------------------------------------------------------
(* Claims about a load that fails                                          *)

FailedOpen == last.op = "open" /\ last.failed

\* C25: when the load of the file chosen in File > Open reports "Load
\* Failed", the current project file path stays what it was and no "Loaded"
\* box is shown.
C25_FailedLoadKeepsPath ==
    FailedOpen =>
        /\ current_file_path = last.path_before
        /\ \A n \in 1..Len(last.boxes) : last.boxes[n] # "info:Open"

\* C26: a load that fails leaves the form as it was: no widget holds a value
\* of the file that failed to load.
C26_FailedLoadChangesNothing ==
    FailedOpen => ~last.changed

-----------------------------------------------------------------------------
(* Claims about a run that asks for the PDF only                           *)

\* C28: a PDF written by a run that asks for the PDF only is written by the
\* basic exporter from the model collected in that run, never converted
\* from a docx file an earlier run left under the same title and date.
C28_PdfOnlyRunUsesOwnModel ==
    Generated /\ last.fmt = "pdf" /\ Has(last.events, "info:PDF saved") =>
        /\ PdfPath(last.r.project_title) \in DOMAIN fs
        /\ fs[PdfPath(last.r.project_title)].via = "reportlab"
        /\ fs[PdfPath(last.r.project_title)].of = last.r

-----------------------------------------------------------------------------
(* Table texts of two records with a blank line between them               *)

RecordInputs ==
    {l1 \o <<NL, NL>> \o l2 : l1, l2 \in LineChoices \ {<<>>}}

InitRecords ==
    /\ form \in {[TitledForm EXCEPT !.results = <<RawTableItem(t)>>] : t \in RecordInputs}
    /\ include = AllEnabled
    /\ export_fmt = "both"
    /\ branding = DefaultBranding
    /\ libs = [Document |-> TRUE, SimpleDocTemplate |-> TRUE, docx2pdf_convert |-> FALSE]
    /\ fs = NoFiles
    /\ current_file_path = None
    /\ dialogs = <<>>
    /\ last = Idle

NextRecords == RenderDocx \/ RenderPdf

SpecRecords == InitRecords /\ [][NextRecords]_vars

\* whether a grid has a row for every line and a cell in every row
RowPerLine(grid, lines) ==
    /\ Len(grid) = Len(lines)
    /\ \A i \in 1..Len(grid) : Len(grid[i]) >= 1

\* C29: the grid an export infers from a non-empty text has as many rows as
\* the text has lines once its leading and trailing newlines are stripped,
\* and every row has at least one cell, whichever strategy produced it,
\* blank lines between records included.
C29_RowPerLineCellPerRow ==
    last.op = "render" /\ RawStripped # <<>> =>
        RowPerLine(parse_table_text(RawText), splitlines(RawStripped))

-----------------------------------------------------------------------------
(* Claims about the rows of the objectives and the manufacturing order     *)

\* as many row frames as variables, labelled 1..n in order
RowsAligned(rows) ==
    /\ Len(rows.labels) = Len(rows.vars)
    /\ \A i \in 1..Len(rows.labels) : rows.labels[i] = i

\* C30: after any sequence of Add, Remove Last and project loads, the
\* objectives have as many row frames as row variables, labelled 1..n in
\* order, and so have the manufacturing-order steps; the k-th collected
\* entry is the value of the k-th non-blank row.
C30_RowsMatchVariables ==
    /\ RowsAligned(ObjRows(form))
    /\ RowsAligned(MoRows(form))
    /\ _collect(form).objectives = NonBlankEntries(form.objectives)
    /\ _collect(form).manuf_order_steps = NonBlankEntries(form.manuf_order_steps)

\* a project was loaded, its last objective row removed and a row added; a
\* step was removed
C30_Witness ==
    /\ current_file_path = "blank.json"
    /\ form.objectives = << <<>>, <<>> >>
    /\ form._obj_container = <<1, 2>>
    /\ form.manuf_order_steps = <<>>
    /\ form._mo_container = <<>>

====
